---- MODULE Spec2Model ----
(***************************************************************************)
(* Registry upsert protocol of the nova ingest pipeline.                   *)
(*                                                                         *)
(* Part 1: _enqueue_snapshot (src/tmp/enqueue_function.py, and the same    *)
(* text in the commented variant of stage_write_metadata/app.py): a        *)
(* create-only put, a conditional priority update and an unconditional     *)
(* refresh against a DynamoDB table keyed by (pk, sk).  Several pipeline   *)
(* runs execute it concurrently; each store operation is one atomic step.  *)
(*                                                                         *)
(* Part 2: the live stage_write_metadata handler and its                   *)
(* _upsert_candidates_ddb loop (stage_write_metadata/app.py lines 64-154). *)
(***************************************************************************)
EXTENDS Integers, Sequences, FiniteSets, TLC

\* ------------------------------------------------------------------ bounds
\* Total number of _enqueue_snapshot invocations explored in one behaviour.
MaxCalls == 2

\* Number of candidates in one event of the live handler.
MaxBatch == 2

\* Number of invocations of the live handler explored in one behaviour.
MaxInvocations == 2

\* Number of prepare_ingest_manifest invocations explored in one behaviour.
MaxManifestRuns == 2

\* Number of links of one ADS document in the open-access evaluation.
MaxLinks == 2
MaxData == 2

\* ------------------------------------------------------------ value domains
\* Python None for string-valued arguments.
None == "None"
\* A DynamoDB attribute that the stored item does not carry.
Absent == "ABSENT"
\* Numeric attribute (priority, created_at, attempts) the item does not carry.
MissingNum == -1

\* Strings whose letter case matters are sequences of characters.
Runs == {"r1", "r2"}
NovaIds == {<<"n", "1">>, <<"N", "1">>}
Bibcodes == {<<"b", "1">>}
Priorities == {30, 50, 60}
\* (open_access_url, oa_reason) of a slim ADS record: none of the two, a URL with
\* its reason, or a reason without a usable URL.
OaObservations ==
    {<<None, None>>, <<"https://arxiv.org/pdf/1", "arxiv">>, <<None, "property_only">>}
EntryDates == {"2012-05-01"}
Reasons == {"P1 big-journal OA"}

\* str.lower() on one character / on a string.
LowerChar(c) ==
    CASE c = "N" -> "n"
      [] c = "B" -> "b"
      [] c = "U" -> "u"
      [] c = "K" -> "k"
      [] c = "O" -> "o"
      [] c = "W" -> "w"
      [] OTHER -> c

Lower(s) == [i \in DOMAIN s |-> LowerChar(s[i])]

\* Python `x or d` for strings: the empty string (and None) is falsy.
OrStr(x, d) == IF x = <<>> THEN d ELSE x

UnknownLower == <<"u", "n", "k", "n", "o", "w", "n">>
UnknownUpper == <<"U", "N", "K", "N", "O", "W", "N">>

\* _fingerprint: sha256 over "<bibcode.lower()>|<nova_id.lower()>"; the hash
\* is treated as injective, so the digest is the hashed string itself.
Fingerprint(nova_id, bibcode) == Lower(bibcode) \o <<"|">> \o Lower(nova_id)

\* pk = f"SNAP#{fp}"
PkOf(nova_id, bibcode) ==
    <<"SNAP#">> \o Fingerprint(OrStr(nova_id, UnknownLower), OrStr(bibcode, UnknownLower))

\* sk = f"NOVA#{nova_id or 'UNKNOWN'}#BIB#{bibcode or 'UNKNOWN'}"
SkOf(nova_id, bibcode) ==
    <<"NOVA#">> \o OrStr(nova_id, UnknownUpper) \o <<"#BIB#">> \o OrStr(bibcode, UnknownUpper)

\* The table's primary key of a call.
KeyOf(a) == <<PkOf(a.nova_id, a.bibcode), SkOf(a.nova_id, a.bibcode)>>

\* Decimal digits of a natural number, most significant first.
RECURSIVE Digits(_)
Digits(n) == IF n < 10 THEN <<n>> ELSE Digits(n \div 10) \o <<n % 10>>

RECURSIVE PadLeft(_, _)
PadLeft(ds, w) == IF Len(ds) >= w THEN ds ELSE PadLeft(<<0>> \o ds, w)

\* f"{priority:03d}"
Pad3(p) == PadLeft(Digits(p), 3)

\* (entry_date or '')[:10] or '0000-00-00'
EntryDay(e) == IF e = None \/ e = "" THEN "0000-00-00" ELSE e

\* gsi1_sk = f"{priority:03d}|{entry_day}|{pk}"
Gsi1Sk(priority, entry_date, pk) == <<Pad3(priority), EntryDay(entry_date), pk>>

\* gsi2_sk = f"{status}|{priority:03d}|{updated_at}"
Gsi2Sk(status, priority, updated_at) == <<status, Pad3(priority), updated_at>>

\* ads_snapshot_key of a pipeline run: the handler writes one slim snapshot per
\* invocation and passes its key to every _enqueue_snapshot call it makes.
SnapshotKeyOf(r) == IF r = "r1" THEN "staging/ads/s1.json" ELSE "staging/ads/s2.json"

\* Arguments of the _enqueue_snapshot calls of run r.
Args(r) ==
    {[nova_id |-> n, bibcode |-> b, entry_date |-> e,
      ads_snapshot_key |-> SnapshotKeyOf(r), priority |-> p, reason |-> w,
      open_access_url |-> oa[1], oa_reason |-> oa[2]] :
        n \in NovaIds, b \in Bibcodes, e \in EntryDates, p \in Priorities,
        w \in Reasons, oa \in OaObservations}

\* "strip None (DynamoDB can't store None)": a None value is not stored.
StripNone(v) == IF v = None THEN Absent ELSE v

\* (open_access_url or ""), (oa_reason or "")
OrEmpty(v) == IF v = None \/ v = "" THEN "" ELSE v

\* A status the live handler uses, where line 25 says "READY".
InitialStatusQueued == "queued"

\* status = "READY" (line 25)
InitialStatus == "READY"

\* The item built by lines 25-60 for arguments a at time t.
NewItem(a, t) ==
    [pk |-> PkOf(a.nova_id, a.bibcode),
     sk |-> SkOf(a.nova_id, a.bibcode),
     status |-> InitialStatus,
     priority |-> a.priority,
     ads_snapshot_key |-> StripNone(a.ads_snapshot_key),
     reason |-> a.reason,
     open_access_url |-> StripNone(a.open_access_url),
     oa_reason |-> StripNone(a.oa_reason),
     attempts |-> 0,
     created_at |-> t,
     updated_at |-> t,
     gsi1_sk |-> Gsi1Sk(a.priority, a.entry_date, PkOf(a.nova_id, a.bibcode)),
     gsi2_sk |-> Gsi2Sk(InitialStatus, a.priority, t)]

\* UpdateItem on a key that holds no item starts from an item with the key only.
EmptyItem(k) ==
    [pk |-> k[1], sk |-> k[2], status |-> Absent, priority |-> MissingNum,
     ads_snapshot_key |-> Absent, reason |-> Absent, open_access_url |-> Absent,
     oa_reason |-> Absent, attempts |-> MissingNum, created_at |-> MissingNum,
     updated_at |-> MissingNum, gsi1_sk |-> <<>>, gsi2_sk |-> <<>>]

\* All primary keys the modelled calls can address.
AllKeys == {<<PkOf(n, b), SkOf(n, b)>> : n \in NovaIds, b \in Bibcodes}

\* ------------------------------------------------- texts of the ADS records
\* The strings of an ADS record (labels, URLs, doctype, bibstem, properties)
\* are sequences of words; no word is part of another one.
\* str.lower() on one word / on a text.
LowerWord(w) ==
    CASE w = "arXiv" -> "arxiv"
      [] w = "PDF" -> "pdf"
      [] w = "ADS" -> "ads"
      [] w = "Publisher" -> "publisher"
      [] w = "Article" -> "article"
      [] w = "Proposal" -> "proposal"
      [] w = "Circular" -> "circular"
      [] w = "Catalog" -> "catalog"
      [] w = "MNRAS" -> "mnras"
      [] w = "ATel" -> "atel"
      [] w = "OPENACCESS" -> "openaccess"
      [] w = "EPRINT_OPENACCESS" -> "eprint_openaccess"
      [] w = "PUB_OPENACCESS" -> "pub_openaccess"
      [] w = "ARXIV" -> "arxiv"
      [] w = "arXiv:" -> "arxiv:"
      [] w = "SIMBAD" -> "simbad"
      [] OTHER -> w

LowerText(s) == [i \in DOMAIN s |-> LowerWord(s[i])]

\* Python `m in s` for strings: m occurs in s as a contiguous part.
In(m, s) == \E i \in 0..(Len(s) - Len(m)) : SubSeq(s, i + 1, i + Len(m)) = m

\* Python s.strip(): s without its leading and trailing blanks.
Strip(s) ==
    LET nb == {i \in DOMAIN s : s[i] /= " "}
    IN  IF nb = {} THEN <<>>
        ELSE SubSeq(s, CHOOSE i \in nb : \A j \in nb : i <= j,
                       CHOOSE i \in nb : \A j \in nb : j <= i)

\* Index of the first element of seq that satisfies Test, 0 when there is none
\* (the position at which a `for ... if ...: return` loop returns).
FirstIndex(seq, Test(_)) ==
    IF \E i \in DOMAIN seq : Test(seq[i])
    THEN CHOOSE i \in DOMAIN seq : Test(seq[i]) /\ \A j \in 1..(i - 1) : ~Test(seq[j])
    ELSE 0

\* BiblioSource.fp: sha256 over "<bibcode.lower()>|<nova_id.lower()>" of the
\* validated fields; _clean_nova_id and _clean_bibcode strip the two values
\* when the model is built.
BiblioFp(nova_id, bibcode) == Fingerprint(Strip(nova_id), Strip(bibcode))

\* ---------------------------------- prepare_ingest_manifest: pure functions
\* A document of the ADS response, as fetch_ads_details returns it:
\* [bibcode, bibstem, doctype, author (number of authors), abstract (whether
\* it has a non-blank abstract), property (set of words), link (list of
\* <<title, url>> or <<title, url, label>>)]; a missing string is the empty
\* text.

\* _collect_links / _as_label_url: the label is the title, stripped and
\* lowercased; the URL is stripped.
PimCollectLinks(doc) ==
    [i \in DOMAIN doc.link |-> <<LowerText(Strip(doc.link[i][1])), Strip(doc.link[i][2])>>]

\* props = {str(p).lower() for p in doc.get("property") or []};
\* is_oa_prop = "openaccess" in props or "eprint_openaccess" in props
IsOaProp(doc) ==
    LET props == {LowerWord(p) : p \in doc.property}
    IN  "openaccess" \in props \/ "eprint_openaccess" \in props

\* The tests of the three link tiers on one (label, url) pair.
PimArxivPdf(l) ==
    /\ In(<<"arxiv">>, l[1]) \/ In(<<"arxiv", ".org">>, LowerText(l[2]))
    /\ In(<<"pdf">>, LowerText(l[2]))
PimAdsScan(l) ==
    \/ In(<<"ads", " ", "pdf">>, l[1])
    \/ In(<<"ads", " ", "scanned">>, l[1])
    \/ In(<<"ads", " ", "full", " ", "text">>, l[1])
PimPublisher(l) ==
    /\ In(<<"publisher">>, l[1])
    /\ \/ In(<<"pdf">>, LowerText(l[2]))
       \/ In(<<"article">>, l[1])
       \/ In(<<"html">>, l[1])

\* evaluate_open_access of prepare_ingest_manifest: (is_oa, best_url, reason).
PimEvaluateOpenAccess(doc) ==
    LET links == PimCollectLinks(doc)
        a == FirstIndex(links, PimArxivPdf)
        d == FirstIndex(links, PimAdsScan)
        p == FirstIndex(links, PimPublisher)
    IN  IF a > 0 THEN <<TRUE, links[a][2], "arxiv">>
        ELSE IF d > 0 THEN <<TRUE, links[d][2], "ads">>
        ELSE IF IsOaProp(doc) /\ p > 0 THEN <<TRUE, links[p][2], "publisher_oa">>
        ELSE IF IsOaProp(doc) THEN <<TRUE, None, "property_only">>
        ELSE <<FALSE, None, "none">>

\* EXCLUDED_DOCTYPES of prepare_ingest_manifest (default of the environment).
PimExcludedDoctypes ==
    {<<"proposal">>, <<"book">>, <<"bookreview">>, <<"editorial">>, <<"inbook">>,
     <<"obituary">>, <<"talk">>, <<"software">>}
\* BIG_JOURNALS (the same default in both handlers).
BigJournals == {<<"mnras">>, <<"aj">>, <<"apj">>, <<"a&a">>, <<"pasp">>}

PimExcludedDoctype(doc) == LowerText(doc.doctype) \in PimExcludedDoctypes
\* is_circular, is_catalog, is_big_journal, with CIRCULAR_STEMS, CATALOG_STEMS
PimIsCircular(doc) ==
    \/ LowerText(doc.doctype) = <<"circular">>
    \/ LowerText(doc.bibstem) \in {<<"atel">>, <<"cbet">>, <<"iauc">>}
PimIsCatalog(doc) ==
    LowerText(doc.doctype) = <<"catalog">> \/ LowerText(doc.bibstem) \in {<<"ycat">>}
PimIsBigJournal(doc) == LowerText(doc.bibstem) \in BigJournals

\* choose_worker
ChooseWorker(doc) ==
    IF PimIsCircular(doc) THEN "circular"
    ELSE IF PimIsCatalog(doc) THEN "catalog"
    ELSE IF LowerText(doc.doctype) = <<"article">> \/ PimIsBigJournal(doc) THEN "article"
    ELSE "other"

\* The acceptance rules of the handler (lines 280-304), with has_authors and
\* has_abstract.
PimAccept(doc) ==
    LET is_oa == PimEvaluateOpenAccess(doc)[1]
        authors_ok == doc.author > 0
        abstract_ok == doc.abstract
    IN  IF ChooseWorker(doc) \in {"circular", "catalog"}
        THEN authors_ok /\ (abstract_ok \/ is_oa)
        ELSE is_oa /\ authors_ok

\* manifest_id / man_key: a hash over nova_key|bibcode|PIPELINE_VERSION,
\* treated as injective; the version is that of the deployment.
ManifestKey(nova_key, bibcode) == <<"harvest/manifests/pending/manf_", nova_key, bibcode>>

\* A claim that succeeds whatever the registry holds.
ClaimInRegistryUnconditional(tbl, bibcode) == TRUE

\* claim_in_registry with a registry table: the put of the PENDING item under
\* ConditionExpression="attribute_not_exists(pk)" succeeds (True) when the
\* table holds no item for (BIB#bibcode, PIPELINE_VERSION), and fails its
\* condition (False) otherwise.
ClaimInRegistry(tbl, bibcode) == bibcode \notin DOMAIN tbl

\* ------------------ stage_write_metadata with eligibility rules: functions
\* (the variant of the handler kept in app.py lines 168-558)
PRIORITY_P0 == 10
PRIORITY_P1 == 50
PRIORITY_P2 == 90
PRIORITY_RECENCY_MAX_BONUS == 5
PRIORITY_RECENCY_WINDOW_DAYS == 365

TopDoctypes == {<<"circular">>, <<"catalog">>, <<"dataset">>}
ExcludedDoctypes ==
    {<<"proposal">>, <<"book">>, <<"bookreview">>, <<"editorial">>, <<"inbook">>,
     <<"obituary">>, <<"inproceedings">>, <<"phdthesis">>, <<"talk">>, <<"software">>}

\* rec.get(k): None when the dict has no key k.
Get(r, k) == IF k \in DOMAIN r THEN r[k] ELSE None

\* _ALLOWED_ADS_KEYS: the set literal has no comma between "has_data" and
\* "is_open_access", so Python joins the two adjacent string literals.
AllowedAdsKeys ==
    {"bibcode", "bibstem", "doctype", "date", "entry_date", "authors_count",
     "has_abstract", "has_data_links", "data", "has_datais_open_access",
     "open_access_url", "oa_reason", "has_arxiv_id"}

\* _slim_ads_records on one record: bibstem and bibcode always, and every
\* allowed key the record carries.
SlimAdsRecord(r) ==
    [k \in (DOMAIN r \cap AllowedAdsKeys) \cup {"bibstem", "bibcode"} |-> Get(r, k)]

\* A date string is <<form, days>>: its form and the number of whole days
\* from the date to the present (negative for a date in the future). Forms:
\* "utc" an ISO timestamp with Z or an offset; "naive" an ISO date or timestamp
\* without offset; "ymd" not ISO, but its first ten characters read as
\* %Y-%m-%d; "junk" anything else. NoDate stands for None and "".
NoDate == <<"none", 0>>

\* _parse_ymd: fromisoformat gives an aware datetime for "utc" and a naive one
\* for "naive"; the strptime fallback gives an aware one; else None (NoDate).
ParseYmd(s) ==
    CASE s[1] = "utc" -> <<"aware", s[2]>>
      [] s[1] = "naive" -> <<"naive", s[2]>>
      [] s[1] = "ymd" -> <<"aware", s[2]>>
      [] OTHER -> NoDate

\* int(round(x / y)) for x >= 0, y > 0: Python rounds halves to even.
Round(x, y) ==
    LET q == x \div y
        r == x % y
    IN  IF 2 * r < y THEN q
        ELSE IF 2 * r > y THEN q + 1
        ELSE IF q % 2 = 0 THEN q ELSE q + 1

\* _recency_bonus raises TypeError at line 288 when the parsed datetime is
\* naive: datetime.now(timezone.utc) - dt is undefined for it.
RecencyRaises(entry_date) == ParseYmd(entry_date)[1] = "naive"

\* _recency_bonus, when it returns.
RecencyBonus(entry_date) ==
    LET dt == ParseYmd(entry_date)
    IN  IF dt = NoDate THEN 0
        ELSE LET age_days == IF dt[2] < 0 THEN 0 ELSE dt[2]
                 bonus == Round(PRIORITY_RECENCY_MAX_BONUS
                                  * (PRIORITY_RECENCY_WINDOW_DAYS - age_days),
                                PRIORITY_RECENCY_WINDOW_DAYS)
             IN  IF age_days >= PRIORITY_RECENCY_WINDOW_DAYS THEN 0
                 ELSE IF bonus > PRIORITY_RECENCY_MAX_BONUS THEN PRIORITY_RECENCY_MAX_BONUS
                 ELSE IF bonus < 0 THEN 0
                 ELSE bonus

\* entry_date = rec.get("entry_date") or rec.get("date")
EntryDateOf(rec) ==
    IF "entry_date" \in DOMAIN rec /\ rec.entry_date /= NoDate THEN rec.entry_date
    ELSE IF "date" \in DOMAIN rec THEN rec.date
    ELSE NoDate

\* The text field as the record carries it, without .lower().
RawField(rec, k) == IF k \in DOMAIN rec THEN rec[k] ELSE <<>>

\* (rec.get(k) or "").lower() for a text field
LowerField(rec, k) == IF k \in DOMAIN rec THEN LowerText(rec[k]) ELSE <<>>

\* A check of the authors that lets a record without authors_count pass.
AuthorsOkWhenMissing(rec) == "authors_count" \notin DOMAIN rec \/ rec.authors_count > 0

\* int(rec.get("authors_count") or 0) > 0
AuthorsOk(rec) == "authors_count" \in DOMAIN rec /\ rec.authors_count > 0

\* bool(rec.get(k)) for a flag
Flag(rec, k) == k \in DOMAIN rec /\ rec[k] = TRUE

\* The rule of _eligible_and_priority that applies to rec, in the order of
\* the code: "excluded", "P0", "P1", "P2", or "none".
RuleOf(rec) ==
    LET doctype == LowerField(rec, "doctype")
        bibstem == LowerField(rec, "bibstem")
        authors_ok == AuthorsOk(rec)
        has_abs == Flag(rec, "has_abstract")
        is_oa == Flag(rec, "is_open_access")
    IN  IF doctype \in ExcludedDoctypes THEN "excluded"
        ELSE IF doctype \in TopDoctypes /\ authors_ok /\ (has_abs \/ is_oa) THEN "P0"
        ELSE IF doctype = <<"article">> /\ bibstem \in BigJournals /\ is_oa /\ authors_ok
             THEN "P1"
        ELSE IF is_oa /\ authors_ok THEN "P2"
        ELSE "none"

\* _eligible_and_priority raises when a rule applies and the bonus raises.
EligibleRaises(rec) ==
    RuleOf(rec) \in {"P0", "P1", "P2"} /\ RecencyRaises(EntryDateOf(rec))

\* prio = max(1, base - _recency_bonus(entry_date))
PrioFor(base, entry_date) ==
    IF base - RecencyBonus(entry_date) < 1 THEN 1 ELSE base - RecencyBonus(entry_date)

\* _eligible_and_priority, when it returns: (eligible, priority, reason).
EligibleAndPriority(rec) ==
    LET e == EntryDateOf(rec)
    IN  CASE RuleOf(rec) = "P0" ->
               <<TRUE, PrioFor(PRIORITY_P0, e), <<"P0">> \o LowerField(rec, "doctype")>>
          [] RuleOf(rec) = "P1" -> <<TRUE, PrioFor(PRIORITY_P1, e), <<"P1 big-journal OA">>>>
          [] RuleOf(rec) = "P2" -> <<TRUE, PrioFor(PRIORITY_P2, e), <<"P2 other OA">>>>
          [] OTHER -> <<FALSE, None, None>>

\* ------------------- open-access evaluation of an ADS document: functions
\* nova_schema/mapping/ads_mapping.py and query_ads_bibcodes/app.py.  A
\* document is [bibcode (list of tokens, every dot a token of its own; empty
\* when the document has none), bibstem, doctype, property, identifier (list
\* of identifiers, each a list of tokens), link].

\* ads_mapping._collect_links: the label is the title or, when the title is
\* empty, the label of the link, stripped and lowercased; a link whose URL is
\* empty after stripping is left out.
CollectLinks(doc) ==
    LET kept == SelectSeq(doc.link, LAMBDA l : Strip(l[2]) /= <<>>)
    IN  [i \in DOMAIN kept |->
            <<LowerText(Strip(IF kept[i][1] /= <<>> THEN kept[i][1] ELSE kept[i][3])),
              Strip(kept[i][2])>>]

\* evaluate_open_access with the ADS tier tried before the arXiv tier.
EvaluateOpenAccessScanFirst(doc) ==
    LET links == CollectLinks(doc)
        a == FirstIndex(links, PimArxivPdf)
        d == FirstIndex(links, PimAdsScan)
        p == FirstIndex(links, PimPublisher)
    IN  IF d > 0 THEN <<TRUE, links[d][2], "ads">>
        ELSE IF a > 0 THEN <<TRUE, links[a][2], "arxiv">>
        ELSE IF IsOaProp(doc) /\ p > 0 THEN <<TRUE, links[p][2], "publisher_oa">>
        ELSE IF IsOaProp(doc) THEN <<TRUE, None, "property_only">>
        ELSE <<FALSE, None, "none">>

\* ads_mapping.evaluate_open_access: (is_oa, best_url, reason).  Its three
\* link tests are the ones of prepare_ingest_manifest, character by character.
EvaluateOpenAccess(doc) ==
    LET links == CollectLinks(doc)
        a == FirstIndex(links, PimArxivPdf)
        d == FirstIndex(links, PimAdsScan)
        p == FirstIndex(links, PimPublisher)
    IN  IF a > 0 THEN <<TRUE, links[a][2], "arxiv">>
        ELSE IF d > 0 THEN <<TRUE, links[d][2], "ads">>
        ELSE IF IsOaProp(doc) /\ p > 0 THEN <<TRUE, links[p][2], "publisher_oa">>
        ELSE IF IsOaProp(doc) THEN <<TRUE, None, "property_only">>
        ELSE <<FALSE, None, "none">>

\* ads_mapping._ads_abs_url: f"{ADS_UI}{bib}" if bib else None.
AdsAbsUrl(bib) ==
    IF bib = <<>> THEN None ELSE <<"https://ui.adsabs.harvard.edu/abs/">> \o bib

\* ads_mapping.map_ads_to_harvest: (is_open_access, best_free_url, oa_reason)
\* of the mapped record.  _atel_link of this module is _ads_abs_url.
MapAdsToHarvest(doc) ==
    IF LowerText(doc.doctype) = <<"circular">> /\ doc.bibcode /= <<>>
    THEN IF doc.bibstem = <<"ATel">>
         THEN <<TRUE, AdsAbsUrl(doc.bibcode), "circular_html">>
         ELSE <<TRUE, AdsAbsUrl(doc.bibcode), "circular_html">>
    ELSE EvaluateOpenAccess(doc)

\* query_ads_bibcodes._ads_abs_url: an f-string, which prints a missing
\* bibcode as "None".
QabAdsAbsUrl(bib) ==
    <<"https://ui.adsabs.harvard.edu/abs/">>
        \o (IF bib = <<>> THEN <<"None">> ELSE bib) \o <<"/abstract">>

\* query_ads_bibcodes._atel_link: code.split("ATel.")[1] raises IndexError,
\* turned into ValueError, when "ATel." does not occur in the bibcode.
QabAtelLinkRaises(code) == ~In(<<"ATel", ".">>, code)

\* query_ads_bibcodes._atel_link when it returns: the text between the first
\* "ATel." and the next "....".
QabAtelLink(code) ==
    LET Pos(sep, t) == CHOOSE i \in 0..(Len(t) - Len(sep)) :
                          /\ SubSeq(t, i + 1, i + Len(sep)) = sep
                          /\ \A j \in 0..(i - 1) : SubSeq(t, j + 1, j + Len(sep)) /= sep
        Before(sep, t) == IF In(sep, t) THEN SubSeq(t, 1, Pos(sep, t)) ELSE t
        After(sep, t) == SubSeq(t, Pos(sep, t) + Len(sep) + 1, Len(t))
        number == Before(<<".", ".", ".", ".">>,
                         Before(<<"ATel", ".">>, After(<<"ATel", ".">>, code)))
    IN  <<"https://www.astronomerstelegram.org/?read=">> \o number

\* query_ads_bibcodes._first_arxiv_id: the id of the first identifier that
\* _ARXIV_RE matches at its start, case-insensitively ("arxiv:" followed by
\* dddd.ddddd); None when there is none.
FirstArxivId(identifiers) ==
    LET i == FirstIndex(identifiers,
                        LAMBDA x : /\ Len(x) = 2
                                   /\ LowerWord(x[1]) = "arxiv:"
                                   /\ x[2] \in {"2401.01234"})
    IN  IF i = 0 THEN None ELSE identifiers[i][2]

\* query_ads_bibcodes._to_slim_with_resolver: whether it returns or raises and
\* (is_open_access, open_access_url, oa_reason) of the slim record.  mode is
\* RESOLVER_MODE, under_cap is ctx["resolver_calls"] < RESOLVER_MAX_CALLS and
\* ans is what _resolve_open_access_via_resolver answers when it is called.
ToSlimWithResolver(doc, mode, under_cap, ans) ==
    LET doctype == LowerText(doc.doctype)
        bib == doc.bibcode
        props == {LowerWord(p) : p \in doc.property}
        atel == doctype = <<"circular">> /\ bib /= <<>> /\ doc.bibstem = <<"ATel">>
        aid == FirstArxivId(doc.identifier)
        s0 == IF atel THEN <<TRUE, QabAtelLink(bib), "circular_html">>
              ELSE IF doctype = <<"circular">>
                   THEN <<TRUE, QabAdsAbsUrl(bib), "circular_html">>
                   ELSE <<FALSE, None, "none">>
        s1 == IF ~s0[1] /\ aid /= None
              THEN <<TRUE, <<"https://arxiv.org/pdf/", aid, ".pdf">>, "arxiv">>
              ELSE s0
        s2 == IF /\ ~s1[1]
                 /\ {"openaccess", "pub_openaccess", "eprint_openaccess",
                     "ads_openaccess"} \cap props /= {}
                 /\ (under_cap \/ mode = "all")
              THEN IF ans[1] /= None
                   THEN <<TRUE, ans[1],
                          IF ans[2] = "publisher" THEN "publisher_oa" ELSE ans[2]>>
                   ELSE <<TRUE, None, "property_only">>
              ELSE s1
        s3 == IF /\ ~s2[1] /\ mode = "all" /\ under_cap
                 /\ ans[1] /= None /\ ans[2] \in {"ads", "arxiv"}
              THEN <<TRUE, ans[1], ans[2]>>
              ELSE s2
    IN  IF atel /\ QabAtelLinkRaises(bib)
        THEN [st |-> "ValueError", out |-> <<FALSE, None, "none">>]
        ELSE [st |-> "returned", out |-> s3]

\* --------------------------------------------------------------- the state
VARIABLES
    queue_table,   \* the DynamoDB queue table: primary key (pk, sk) -> item
    pc,            \* per run: position inside _enqueue_snapshot
    args,          \* per run: arguments of its current call
    item,          \* per run: the item dict built before the put
    res,           \* per run: the returned dict of its last completed call
    now,           \* the clock read by _now_iso()
    calls,         \* number of _enqueue_snapshot invocations so far
    steps,         \* per run: store operations of the current call, with outcome
    created_cnt,   \* history: per key, number of calls that returned created=True
    offered,       \* history: per key, priorities offered by the calls started
    applied,       \* history: per key, priorities whose put / priority update ran
    raced,         \* history: keys on which two calls were in flight at once
    hist,          \* history: the last two completed calls (args, result, entry)
    deleted,       \* history: per run, its key was deleted after its put failed
    harvest_table, \* live handler: the harvest queue table, key -> item
    hpc,           \* live handler: position of the handler invocation
    candidates_in, \* live handler: harvest_candidates of the event
    batch,         \* live handler: candidates_bib of the current invocation
    idx,           \* live handler: loop index inside _upsert_candidates_ddb
    count,         \* live handler: `count` of _upsert_candidates_ddb
    new_candidates,\* live handler: `new_candidates` of _upsert_candidates_ddb
    failures,      \* live handler history: indices whose put_item raised
    invocations,   \* live handler: number of handler invocations so far
    reg_configured,  \* manifests: whether HARVEST_REG_TABLE is set
    reg_table,       \* manifests: the registry, bibcode -> item
    manifest_bucket, \* manifests: keys of the manifest objects in S3
    nova_index,      \* manifests: the per-nova index object
    mpc,             \* manifests: position of the handler invocation
    bibs,            \* manifests: bibcodes to evaluate
    docs,            \* manifests: documents fetched from ADS
    di,              \* manifests: position of the loop over docs
    created_keys,    \* manifests: manifest keys written by the invocation
    skipped,         \* manifests: counter of skipped documents
    out_manifests,   \* manifests: out["manifests"] of the last return
    manifest_runs,   \* manifests: number of handler invocations so far
    claim_wins,      \* history: per bibcode, the claims that returned True
    peer,            \* manifests: a concurrent invocation on the bibcode m1
    orphaned,        \* history: bibcodes claimed by an invocation that failed
                     \* before it wrote their manifest
    rec,             \* staging: the ADS record of the event
    verdict,         \* staging: what _eligible_and_priority gave for rec
    staged,          \* staging: what the handler did with the event
    oadoc,           \* open access: the ADS document under evaluation
    oa_pim,          \* open access: evaluate_open_access of prepare_ingest_manifest
    oa_lib,          \* open access: evaluate_open_access of ads_mapping
    oa_mapped,       \* open access: map_ads_to_harvest
    oa_slim,         \* open access: _to_slim_with_resolver
    fn_in,           \* pure functions: the arguments under evaluation
    fn_out           \* pure functions: what the functions gave for fn_in

enqVars == <<queue_table, pc, args, item, res, calls, steps, created_cnt,
             offered, applied, raced, hist, deleted>>
liveVars == <<harvest_table, hpc, candidates_in, batch, idx, count,
              new_candidates, failures, invocations>>
pimVars == <<reg_configured, reg_table, manifest_bucket, nova_index, mpc, bibs,
             docs, di, created_keys, skipped, out_manifests, manifest_runs,
             claim_wins, peer, orphaned>>
stageVars == <<rec, verdict, staged>>
oaVars == <<oadoc, oa_pim, oa_lib, oa_mapped, oa_slim>>
fnVars == <<fn_in, fn_out>>
vars == <<enqVars, now, liveVars, pimVars, stageVars, oaVars, fnVars>>

NoArgs == [nova_id |-> <<>>, bibcode |-> <<>>, entry_date |-> None,
           ads_snapshot_key |-> None, priority |-> MissingNum, reason |-> None,
           open_access_url |-> None, oa_reason |-> None]
NoResult == [enqueued |-> FALSE, created |-> FALSE, priority |-> MissingNum,
             updated_priority |-> FALSE]

InFlight == {"put", "prio", "refresh"}

\* ------------------------------------------------------ the store (DynamoDB)
\* A table without items.
EmptyTable == [x \in {} |-> x]

\* The item stored under key k, or the key-only item when none is stored.
Current(tbl, k) == IF k \in DOMAIN tbl THEN tbl[k] ELSE EmptyItem(k)

\* Write item it under key k.
Store(tbl, k, it) == [x \in DOMAIN tbl \cup {k} |-> IF x = k THEN it ELSE tbl[x]]

\* A put without its condition.
AttributeNotExistsPkIgnored(tbl, k) == TRUE

\* ConditionExpression="attribute_not_exists(pk)" of the put: evaluated against
\* the item stored under the put's own primary key (pk, sk).
AttributeNotExistsPk(tbl, k) == k \notin DOMAIN tbl

\* The priority condition with the comparison dropped.
PriorityConditionAnyChange(cur, new_prio) ==
    cur.priority = MissingNum \/ cur.priority /= new_prio

\* ConditionExpression="attribute_not_exists(#p) OR #p > :new_prio"
PriorityCondition(cur, new_prio) ==
    cur.priority = MissingNum \/ cur.priority > new_prio

\* UpdateExpression of the priority update (lines 72-84).
PriorityUpdated(cur, a, t) ==
    [cur EXCEPT !.priority = a.priority,
                !.updated_at = t,
                !.ads_snapshot_key = a.ads_snapshot_key,
                !.reason = a.reason,
                !.gsi1_sk = Gsi1Sk(a.priority, a.entry_date, cur.pk)]

\* A refresh that touches updated_at only.
RefreshedTimestampOnly(cur, a, t) == [cur EXCEPT !.updated_at = t]

\* UpdateExpression of the refresh (lines 91-99); it carries no condition.
Refreshed(cur, a, t) ==
    [cur EXCEPT !.open_access_url = OrEmpty(a.open_access_url),
                !.oa_reason = OrEmpty(a.oa_reason),
                !.ads_snapshot_key = a.ads_snapshot_key,
                !.updated_at = t]

CondFailed == "ConditionalCheckFailedException"
Throttled == "ProvisionedThroughputExceededException"

\* An error handler that swallows every store error.
ReraisedNever(code) == FALSE

\* `if e.response["Error"]["Code"] != "ConditionalCheckFailedException": raise`
Reraised(code) == code /= CondFailed

\* return {"enqueued": True, "created": True, ...} (line 64; it has no
\* updated_priority key, which the summary reads as falsy).
CreatedResult(a) ==
    [enqueued |-> TRUE, created |-> TRUE, priority |-> a.priority,
     updated_priority |-> FALSE]

\* return {"enqueued": True, "created": False, ..., "updated_priority": True}
ExistingResult(a) ==
    [enqueued |-> TRUE, created |-> FALSE, priority |-> a.priority,
     updated_priority |-> TRUE]

\* The last two completed calls.
Remember(h, e) == IF Len(h) < 2 THEN Append(h, e) ELSE <<h[2], e>>

\* ------------------------------------------------------------------- Init
InitEnq ==
    /\ queue_table = EmptyTable
    /\ pc = [r \in Runs |-> "idle"]
    /\ args = [r \in Runs |-> NoArgs]
    /\ item = [r \in Runs |-> EmptyItem(<<<<>>, <<>>>>)]
    /\ res = [r \in Runs |-> NoResult]
    /\ now = 1
    /\ calls = 0
    /\ steps = [r \in Runs |-> <<>>]
    /\ created_cnt = [k \in AllKeys |-> 0]
    /\ offered = [k \in AllKeys |-> {}]
    /\ applied = [k \in AllKeys |-> {}]
    /\ raced = {}
    /\ hist = <<>>
    /\ deleted = [r \in Runs |-> FALSE]

\* --------------------------------------------- _enqueue_snapshot, step by step
\* Lines 18-60: entry into the function; the item dict is built (created_at =
\* updated_at = _now_iso()) before any store operation.
Call(r, a) ==
    /\ pc[r] \notin InFlight
    /\ calls < MaxCalls
    /\ calls' = calls + 1
    /\ args' = [args EXCEPT ![r] = a]
    /\ item' = [item EXCEPT ![r] = NewItem(a, now)]
    /\ now' = now + 1
    /\ pc' = [pc EXCEPT ![r] = "put"]
    /\ res' = [res EXCEPT ![r] = NoResult]
    /\ steps' = [steps EXCEPT ![r] = <<>>]
    /\ deleted' = [deleted EXCEPT ![r] = FALSE]
    /\ offered' = [offered EXCEPT ![KeyOf(a)] = @ \cup {a.priority}]
    /\ raced' = IF \E q \in Runs \ {r} : pc[q] \in InFlight /\ KeyOf(args[q]) = KeyOf(a)
                THEN raced \cup {KeyOf(a)} ELSE raced
    /\ UNCHANGED <<queue_table, created_cnt, applied, hist>>

\* Lines 62-67: the create-only put, ending with error code `code` ("ok" when it
\* succeeds).
StepPut(r, code) ==
    LET a == args[r]
        k == KeyOf(a)
    IN  /\ pc[r] = "put"
        /\ steps' = [steps EXCEPT ![r] = Append(@, <<"put", code>>)]
        /\ IF code = "ok"
           THEN /\ queue_table' = Store(queue_table, k, item[r])
                /\ pc' = [pc EXCEPT ![r] = "done"]
                /\ res' = [res EXCEPT ![r] = CreatedResult(a)]
                /\ created_cnt' = [created_cnt EXCEPT ![k] = @ + 1]
                /\ applied' = [applied EXCEPT ![k] = @ \cup {a.priority}]
                /\ hist' = Remember(hist, [run |-> r, args |-> a, res |-> CreatedResult(a),
                                           entry |-> item[r]])
           ELSE /\ pc' = [pc EXCEPT ![r] = IF Reraised(code) THEN "raised" ELSE "prio"]
                /\ UNCHANGED <<queue_table, res, created_cnt, applied, hist>>
        /\ UNCHANGED <<args, item, now, calls, offered, raced, deleted>>

PutItem(r) ==
    StepPut(r, IF AttributeNotExistsPk(queue_table, KeyOf(args[r])) THEN "ok" ELSE CondFailed)

\* Lines 69-89: the conditional priority update, ending with `code`.
StepPriority(r, code) ==
    LET a == args[r]
        k == KeyOf(a)
        cur == Current(queue_table, k)
    IN  /\ pc[r] = "prio"
        /\ steps' = [steps EXCEPT ![r] = Append(@, <<"prio", code>>)]
        /\ now' = now + 1
        /\ IF code = "ok"
           THEN /\ queue_table' = Store(queue_table, k, PriorityUpdated(cur, a, now))
                /\ applied' = [applied EXCEPT ![k] = @ \cup {a.priority}]
                /\ pc' = [pc EXCEPT ![r] = "refresh"]
           ELSE /\ pc' = [pc EXCEPT ![r] = IF Reraised(code) THEN "raised" ELSE "refresh"]
                /\ applied' = IF code = CondFailed
                              THEN [applied EXCEPT ![k] = @ \cup {a.priority}]
                              ELSE applied
                /\ UNCHANGED queue_table
        /\ UNCHANGED <<args, item, res, calls, created_cnt, offered, raced, hist, deleted>>

PriorityUpdate(r) ==
    StepPriority(r, IF PriorityCondition(Current(queue_table, KeyOf(args[r])), args[r].priority)
                    THEN "ok" ELSE CondFailed)

\* Lines 90-101: the refresh and the return; a failure of the refresh is not
\* caught.
StepRefresh(r, code) ==
    LET a == args[r]
        k == KeyOf(a)
        cur == Current(queue_table, k)
    IN  /\ pc[r] = "refresh"
        /\ steps' = [steps EXCEPT ![r] = Append(@, <<"refresh", code>>)]
        /\ now' = now + 1
        /\ IF code = "ok"
           THEN /\ queue_table' = Store(queue_table, k, Refreshed(cur, a, now))
                /\ pc' = [pc EXCEPT ![r] = "done"]
                /\ res' = [res EXCEPT ![r] = ExistingResult(a)]
                /\ hist' = Remember(hist, [run |-> r, args |-> a, res |-> ExistingResult(a),
                                           entry |-> Refreshed(cur, a, now)])
           ELSE /\ pc' = [pc EXCEPT ![r] = "raised"]
                /\ UNCHANGED <<queue_table, res, hist>>
        /\ UNCHANGED <<args, item, calls, created_cnt, offered, applied, raced, deleted>>

Refresh(r) == StepRefresh(r, "ok")

\* A store operation that fails with an error other than the conditional check.
PutItemFault(r) == StepPut(r, Throttled)
PriorityUpdateFault(r) == StepPriority(r, Throttled)
RefreshFault(r) == StepRefresh(r, Throttled)

\* Another actor deletes the entry under key k.
Delete(k) ==
    /\ k \in DOMAIN queue_table
    /\ queue_table' = [x \in DOMAIN queue_table \ {k} |-> queue_table[x]]
    /\ deleted' = [r \in Runs |->
                     IF pc[r] \in {"prio", "refresh"} /\ KeyOf(args[r]) = k
                     THEN TRUE ELSE deleted[r]]
    /\ UNCHANGED <<pc, args, item, res, now, calls, steps, created_cnt, offered,
                   applied, raced, hist>>

\* ------------------------------------- the live stage_write_metadata handler
LiveNovaIds == {<<"n", "1">>}
LiveBibcodes == {<<"b", "1">>, <<"b", "2">>}
LivePriorities == {50, 60}

\* data_id of BiblioSource.candidate_id: " ".join(self.data), the empty string
\* for an empty list (a data tag is a sequence of words).
RECURSIVE DataId(_)
DataId(data) ==
    IF data = <<>> THEN <<>>
    ELSE IF Len(data) = 1 THEN data[1]
    ELSE data[1] \o <<" ">> \o DataId(Tail(data))

\* BiblioSource.candidate_id: sha1 over "bibcode|doctype|open_access_url|data_id"
\* (the hash treated as injective).
CandidateId(c) == <<c.bibcode, c.doctype, c.open_access_url, DataId(c.data)>>

\* BiblioSource.pk = f"SNAP#{candidate_id}", BiblioSource.sk as SkOf.
LiveKey(c) == <<<<"SNAP#">> \o CandidateId(c), SkOf(c.nova_id, c.bibcode)>>

\* BiblioSource(**c) for a valid candidate dict: status defaults to "created",
\* updated_at to the time of construction.
BiblioSource(nova_id, bibcode, priority, t) ==
    [nova_id |-> nova_id, bibcode |-> bibcode, doctype |-> "article",
     open_access_url |-> "", data |-> <<>>, status |-> "created",
     priority |-> priority, updated_at |-> t]

\* BiblioSource._clean_nova_id: a nova_id that is empty or whitespace is
\* rejected (ValueError, hence a ValidationError of the model).
CleanNovaIdOk(nova_id) == nova_id /= <<>>

\* The candidate dicts an event can carry (identity and priority); the nova_id
\* of a dict may be the empty string.
CandidateInputs == (LiveNovaIds \cup {<<>>}) \X LiveBibcodes \X LivePriorities

\* _get_biblio_objs: the list comprehension builds BiblioSource(**c) for every
\* dict and has no handler around it, so it returns a list only when every
\* dict validates; otherwise the ValidationError leaves the function.
GetBiblioObjsRaises(cands) == \E i \in DOMAIN cands : ~CleanNovaIdOk(cands[i][1])
GetBiblioObjs(cands, t) ==
    [i \in DOMAIN cands |-> BiblioSource(cands[i][1], cands[i][2], cands[i][3], t)]

\* harvest_candidates of an event: non-empty lists of at most MaxBatch dicts.
Batches == UNION {[1..n -> CandidateInputs] : n \in 1..MaxBatch}

\* A merge that sets updated_at and leaves the status as it was.
MergeUpdatesStatusKept(c, t) == [c EXCEPT !.updated_at = t]

\* merge_updates(c, {"status": "queued", "updated_at": _utc_now()})
MergeUpdates(c, t) == [c EXCEPT !.status = "queued", !.updated_at = t]

\* new_candidate.model_dump(mode="json"): the fields and the computed fields;
\* created_at is computed when the dump is taken.
ModelDump(c, t) ==
    [pk |-> LiveKey(c)[1], sk |-> LiveKey(c)[2], status |-> c.status,
     priority |-> c.priority, updated_at |-> c.updated_at, created_at |-> t,
     gsi1_sk |-> <<Pad3(c.priority), LiveKey(c)[1]>>]

\* queue_table.put_item(Item=...) of the live loop: no ConditionExpression.
LivePut(tbl, k, it) == Store(tbl, k, it)

InitLive ==
    /\ harvest_table = EmptyTable
    /\ hpc = "idle"
    /\ candidates_in = <<>>
    /\ batch = <<>>
    /\ idx = 1
    /\ count = 0
    /\ new_candidates = <<>>
    /\ failures = {}
    /\ invocations = 0

\* handler, lines 106-128: the candidates are validated and the canonical
\* metadata is staged; _upsert_candidates_ddb starts with count = 0. When the
\* validation of a candidate raises, the handler ends there: nothing is staged
\* and no candidate is upserted.
HandlerStart(cands) ==
    /\ hpc \in {"idle", "returned", "raised"}
    /\ invocations < MaxInvocations
    /\ invocations' = invocations + 1
    /\ candidates_in' = cands
    /\ now' = now + 1
    /\ idx' = 1
    /\ count' = 0
    /\ new_candidates' = <<>>
    /\ failures' = {}
    /\ IF GetBiblioObjsRaises(cands)
       THEN /\ hpc' = "raised"
            /\ batch' = <<>>
       ELSE /\ hpc' = "upsert"
            /\ batch' = GetBiblioObjs(cands, now)
    /\ UNCHANGED harvest_table

\* One iteration of the loop of _upsert_candidates_ddb (lines 71-80); ok says
\* whether put_item returned or raised.
UpsertOne(ok) ==
    LET c == batch[idx]
        new_candidate == MergeUpdates(c, now)
    IN  /\ hpc = "upsert"
        /\ idx <= Len(batch)
        /\ now' = now + 1
        /\ idx' = idx + 1
        /\ IF ok
           THEN /\ harvest_table' = LivePut(harvest_table, LiveKey(new_candidate),
                                            ModelDump(new_candidate, now))
                /\ new_candidates' = Append(new_candidates, new_candidate)
                /\ count' = count + 1
                /\ UNCHANGED failures
           ELSE /\ new_candidates' = Append(new_candidates, c)
                /\ failures' = failures \cup {idx}
                /\ UNCHANGED <<harvest_table, count>>
        /\ UNCHANGED <<hpc, candidates_in, batch, invocations>>

\* handler, lines 142-154: the loop is over, the bundle is written and the
\* handler returns {"dynamodb": {"upserted": count}, ...}.
HandlerReturn ==
    /\ hpc = "upsert"
    /\ idx > Len(batch)
    /\ hpc' = "returned"
    /\ UNCHANGED <<harvest_table, candidates_in, batch, idx, count,
                   new_candidates, failures, invocations, now>>

\* --------------------------------------- the prepare_ingest_manifest handler
\* The documents ADS holds for the bibcodes of the events: an open-access
\* article of a major journal, a proposal, and a circular without authors.
AdsCatalogue ==
    [b \in {"m1", "m2", "m3"} |->
        CASE b = "m1" -> [bibcode |-> "m1", bibstem |-> <<"MNRAS">>, doctype |-> <<"article">>,
                          author |-> 2, abstract |-> TRUE, property |-> {"OPENACCESS"},
                          link |-> <<>>]
          [] b = "m2" -> [bibcode |-> "m2", bibstem |-> <<"prop">>, doctype |-> <<"Proposal">>,
                          author |-> 1, abstract |-> TRUE, property |-> {"OPENACCESS"},
                          link |-> <<>>]
          [] b = "m3" -> [bibcode |-> "m3", bibstem |-> <<"ATel">>, doctype |-> <<"circular">>,
                          author |-> 0, abstract |-> TRUE, property |-> {},
                          link |-> <<>>]]

\* event["ads"]["bibcodes"]: lists of distinct bibcodes, the empty list included.
BibLists ==
    {<<>>} \cup {<<b>> : b \in DOMAIN AdsCatalogue}
           \cup {<<b, c>> : b \in {"m1"}, c \in {"m2", "m3"}}

\* fetch_ads_details: one query for all bibcodes; ADS answers with the
\* documents it holds for them, which need not be one per bibcode asked for
\* (the sublists of a list of at most two bibcodes, in the order of the list).
FetchAdsDetails(bs) ==
    LET found == {<<>>, bs} \cup {<<bs[i]>> : i \in DOMAIN bs}
    IN  {[i \in DOMAIN l |-> AdsCatalogue[l[i]]] : l \in found}

InitPimIdle ==
    /\ reg_table = EmptyTable
    /\ manifest_bucket = {}
    /\ nova_index = <<>>
    /\ mpc = "idle"
    /\ bibs = <<>>
    /\ docs = <<>>
    /\ di = 1
    /\ created_keys = <<>>
    /\ skipped = 0
    /\ out_manifests = None
    /\ manifest_runs = 0
    /\ orphaned = {}
    /\ claim_wins = [b \in DOMAIN AdsCatalogue |-> 0]
    /\ peer = [pc |-> "idle", nova_key |-> "n2", runs |-> 0, skipped |-> 0]

\* handler, lines 243-266: a bad upstream status and an empty list of bibcodes
\* return at once; otherwise the documents are fetched and the loop starts.
PimStart(status_ok, bs, ds) ==
    /\ mpc \in {"idle", "returned", "raised", "bad_request"}
    /\ manifest_runs < MaxManifestRuns
    /\ manifest_runs' = manifest_runs + 1
    /\ di' = 1
    /\ created_keys' = <<>>
    /\ skipped' = 0
    /\ IF ~status_ok
       THEN /\ mpc' = "bad_request"
            /\ out_manifests' = None
            /\ UNCHANGED <<bibs, docs>>
       ELSE /\ bibs' = bs
            /\ IF bs = <<>>
               THEN /\ mpc' = "returned"
                    /\ docs' = <<>>
                    /\ out_manifests' = [created |-> 0, skipped |-> 0, keys |-> <<>>]
               ELSE /\ mpc' = "loop"
                    /\ ds \in FetchAdsDetails(bs)
                    /\ docs' = ds
                    /\ out_manifests' = None
    /\ UNCHANGED <<reg_configured, reg_table, manifest_bucket, nova_index, orphaned,
                   claim_wins, peer>>

\* One document of the loop up to claim_in_registry (lines 268-314): a
\* document without bibcode, of an excluded doctype, not accepted, or already
\* claimed is counted as skipped; a claimed one goes on to its manifest.
\* claim_in_registry puts the PENDING item under attribute_not_exists(pk).
PimEvaluate ==
    LET doc == docs[di]
        b == doc.bibcode
    IN  /\ mpc = "loop"
        /\ di <= Len(docs)
        /\ IF b = "" \/ PimExcludedDoctype(doc) \/ ~PimAccept(doc)
              \/ (reg_configured /\ ~ClaimInRegistry(reg_table, b))
           THEN /\ skipped' = skipped + 1
                /\ di' = di + 1
                /\ UNCHANGED <<mpc, reg_table, claim_wins>>
           ELSE /\ reg_table' = IF reg_configured
                                THEN Store(reg_table, b, [status |-> "PENDING", manifest_key |-> Absent])
                                ELSE reg_table
                /\ claim_wins' = [claim_wins EXCEPT ![b] = @ + 1]
                /\ mpc' = "write"
                /\ UNCHANGED <<skipped, di>>
        /\ UNCHANGED <<reg_configured, manifest_bucket, nova_index, bibs, docs,
                       created_keys, out_manifests, manifest_runs, orphaned, peer>>

\* put_json(MANIFEST_BUCKET, man_key, manifest) and created_keys.append
\* (lines 374-376); when the write raises, the invocation fails.
PimWrite(ok) ==
    LET b == docs[di].bibcode
    IN  /\ mpc = "write"
        /\ IF ok
           THEN /\ manifest_bucket' = manifest_bucket \cup {ManifestKey("n1", b)}
                /\ created_keys' = Append(created_keys, ManifestKey("n1", b))
                /\ mpc' = "mark"
                /\ UNCHANGED orphaned
           ELSE /\ mpc' = "raised"
                /\ orphaned' = IF reg_configured THEN orphaned \cup {b} ELSE orphaned
                /\ UNCHANGED <<manifest_bucket, created_keys>>
        /\ UNCHANGED <<reg_configured, reg_table, nova_index, bibs, docs, di,
                       skipped, out_manifests, manifest_runs, claim_wins, peer>>

\* mark_done_in_registry and append_nova_index (lines 378-390); either may raise.
PimMark(outcome) ==
    LET b == docs[di].bibcode
        marked == IF reg_configured
                  THEN Store(reg_table, b, [status |-> "PENDING_MANIFEST",
                                            manifest_key |-> ManifestKey("n1", b)])
                  ELSE reg_table
    IN  /\ mpc = "mark"
        /\ CASE outcome = "ok" ->
                  /\ reg_table' = marked
                  /\ nova_index' = Append(nova_index, b)
                  /\ di' = di + 1
                  /\ mpc' = "loop"
             [] outcome = "mark_raises" ->
                  /\ mpc' = "raised"
                  /\ UNCHANGED <<reg_table, nova_index, di>>
             [] outcome = "index_raises" ->
                  /\ reg_table' = marked
                  /\ mpc' = "raised"
                  /\ UNCHANGED <<nova_index, di>>
        /\ UNCHANGED <<reg_configured, manifest_bucket, bibs, docs, created_keys,
                       skipped, out_manifests, manifest_runs, orphaned,
                       claim_wins, peer>>

\* handler, lines 392-400: the loop is over and the summary is returned.
PimReturn ==
    /\ mpc = "loop"
    /\ di > Len(docs)
    /\ mpc' = "returned"
    /\ out_manifests' = [created |-> Len(created_keys), skipped |-> skipped,
                         keys |-> created_keys]
    /\ UNCHANGED <<reg_configured, reg_table, manifest_bucket, nova_index, bibs,
                   docs, di, created_keys, skipped, manifest_runs, orphaned,
                   claim_wins, peer>>

\* ------------------------ stage_write_metadata with eligibility rules
\* The slim ADS records an event can carry: the open-access URL and reason go
\* with the open-access flag; some records carry no authors_count; the
\* records of `dated` are one per tier and differ in their entry date.
Records ==
    LET full ==
          {[bibcode |-> <<"b", "1">>, bibstem |-> s, doctype |-> d, date |-> dd,
            entry_date |-> e, authors_count |-> n, has_abstract |-> ab,
            is_open_access |-> oa,
            open_access_url |-> IF oa THEN "https://arxiv.org/pdf/1" ELSE None,
            oa_reason |-> IF oa THEN "arxiv" ELSE "none"] :
              s \in {<<"MNRAS">>, <<"ATel">>},
              d \in {<<"circular">>, <<"Catalog">>, <<"article">>, <<"eprint">>, <<"Proposal">>},
              dd \in {NoDate, <<"utc", 5000>>},
              e \in {NoDate, <<"utc", 5>>, <<"naive", 5>>},
              n \in {0, 2}, ab \in BOOLEAN, oa \in BOOLEAN}
        dated ==
          {[bibcode |-> <<"b", "1">>, bibstem |-> <<"MNRAS">>, doctype |-> d,
            date |-> NoDate, entry_date |-> e, authors_count |-> 2,
            has_abstract |-> TRUE, is_open_access |-> TRUE,
            open_access_url |-> "https://arxiv.org/pdf/1", oa_reason |-> "arxiv"] :
              d \in {<<"circular">>, <<"article">>, <<"eprint">>},
              e \in {<<"junk", 0>>}
                    \cup {<<f, a>> : f \in {"utc", "ymd"},
                                     a \in {-3, 0, 36, 37, 182, 183, 328, 329, 364, 365, 400}}}
    IN  full \cup dated
             \cup {[k \in DOMAIN r \ {"authors_count"} |-> r[k]] :
                     r \in {x \in full : x.authors_count = 2 /\ x.entry_date = NoDate}}

\* Neither the classifier nor the handler has run on the record.
InitStageIdle ==
    /\ verdict = [st |-> "not run", out |-> <<FALSE, None, None>>]
    /\ staged = [st |-> "not run", ads_snapshot_key |-> None, table |-> EmptyTable,
                 has_records |-> TRUE, queue_configured |-> TRUE, writes |-> <<>>]

\* _eligible_and_priority(rec): it returns its verdict, or raises the
\* TypeError of _recency_bonus.
Classify ==
    /\ verdict.st = "not run"
    /\ verdict' = IF EligibleRaises(rec)
                  THEN [st |-> "TypeError", out |-> <<FALSE, None, None>>]
                  ELSE [st |-> "returned", out |-> EligibleAndPriority(rec)]
    /\ UNCHANGED <<rec, staged>>

\* The arguments of the _enqueue_snapshot call of lines 509-521 for a slim
\* record with priority prio and reason.
EnqueueArgs(slim, prio, reason) ==
    [nova_id |-> <<"n", "1">>, bibcode |-> Get(slim, "bibcode"),
     entry_date |-> IF EntryDateOf(slim) = NoDate THEN None ELSE EntryDateOf(slim),
     ads_snapshot_key |-> SnapshotKeyOf("r1"),
     priority |-> prio, reason |-> reason,
     open_access_url |-> Get(slim, "open_access_url"),
     oa_reason |-> Get(slim, "oa_reason")]

\* The writes of the handler with the registry write ahead of the slim ADS
\* snapshot.
StageWritesEnqueueFirst(has_records, enqueues) ==
    <<"staging/metadata/snapshot", "staging/metadata/latest">>
        \o (IF enqueues THEN <<"enqueue">> ELSE <<>>)
        \o (IF has_records THEN <<SnapshotKeyOf("r1")>> ELSE <<>>)

\* The writes of the handler in the order in which it performs them (lines
\* 466-522, WRITE_LATEST and ADS_SNAPSHOT_MODE at their defaults): the
\* metadata snapshot, the latest pointer, the slim ADS snapshot when the event
\* has records, and after it the _enqueue_snapshot call when there is one.
StageWrites(has_records, enqueues) ==
    <<"staging/metadata/snapshot", "staging/metadata/latest">>
        \o (IF has_records THEN <<SnapshotKeyOf("r1")>> ELSE <<>>)
        \o (IF enqueues THEN <<"enqueue">> ELSE <<>>)

\* handler (lines 446-558) on an event whose ads.records is [rec] (or empty,
\* when has_records is false), with a queue table that holds nothing yet (or
\* without queue table, when queue_configured is false): the snapshots are
\* written, the slim record is classified and, when eligible, enqueued (the
\* put of _enqueue_snapshot creates the entry).
Stage(has_records, queue_configured) ==
    LET slim == SlimAdsRecord(rec)
        v == EligibleAndPriority(slim)
        a == EnqueueArgs(slim, v[2], v[3])
        classifies == has_records /\ queue_configured
        enqueues == classifies /\ ~EligibleRaises(slim) /\ v[1]
    IN  /\ staged.st = "not run"
        /\ staged' =
             [st |-> IF classifies /\ EligibleRaises(slim) THEN "TypeError" ELSE "returned",
              ads_snapshot_key |-> IF has_records THEN SnapshotKeyOf("r1") ELSE None,
              table |-> IF enqueues
                        THEN Store(EmptyTable, KeyOf(a), NewItem(a, now))
                        ELSE EmptyTable,
              has_records |-> has_records,
              queue_configured |-> queue_configured,
              writes |-> StageWrites(has_records, enqueues)]
        /\ UNCHANGED <<rec, verdict>>

\* ------------------------------- open-access evaluation of an ADS document
\* The documents: every list of at most MaxLinks links, with the venues, the
\* property flags and the identifiers that separate the branches.
OaDocs ==
    LET links == {
            <<<<"arXiv", " ", "PDF">>,
              <<"https://", "arxiv", ".org", "/", "pdf", "/", "2401.01234">>, <<>>>>,
            <<<<"Preprint">>,
              <<"https://", "ARXIV", ".org", "/", "PDF", "/", "2401.01234", " ">>, <<>>>>,
            <<<<"arXiv">>,
              <<"https://", "arxiv", ".org", "/", "abs", "/", "2401.01234">>, <<>>>>,
            <<<<" ", "ADS", " ", "PDF">>,
              <<"https://", "articles.adsabs.harvard.edu", "/", "pdf", "/", "x">>, <<>>>>,
            <<<<"Publisher", " ", "Article">>,
              <<"https://", "doi", ".org", "/", "x">>, <<>>>>,
            <<<<>>, <<"https://", "host", "/", "pdf", "/", "x">>, <<"arXiv">>>>}
        venues == {
            <<<<"article">>, <<"MNRAS">>,
              <<"2020", "MNRAS", ".", "491", ".", ".", ".", ".", "1B">>>>,
            <<<<"circular">>, <<"ATel">>,
              <<"2012", "ATel", ".", "4321", ".", ".", ".", ".", "1B">>>>,
            <<<<"circular">>, <<"ATel">>,
              <<"2019", "ATel", "13027", ".", ".", ".", ".", "1S">>>>,
            <<<<"Circular">>, <<"CBET">>,
              <<"2013", "CBET", ".", "3628", ".", ".", ".", ".", "1N">>>>,
            <<<<"circular">>, <<"ATel">>, <<>>>>}
        identifiers == {
            <<>>,
            <<<<"10.1093/x">>, <<"arXiv:", "2401.01234">>>>,
            <<<<"arXiv:", "astro-ph/0601001">>>>}
    IN  {[bibcode |-> v[3], bibstem |-> v[2], doctype |-> v[1],
          property |-> pr, identifier |-> id, link |-> ls] :
            v \in venues,
            pr \in {{}, {"OPENACCESS"}, {"PUB_OPENACCESS"}},
            id \in identifiers,
            ls \in UNION {[1..n -> links] : n \in 0..MaxLinks}}

\* None of the four functions has been applied to the document.
InitOaIdle ==
    /\ oa_pim = [st |-> "not run", out |-> <<FALSE, None, "none">>]
    /\ oa_lib = [st |-> "not run", out |-> <<FALSE, None, "none">>]
    /\ oa_mapped = [st |-> "not run", out |-> <<FALSE, None, "none">>]
    /\ oa_slim = [st |-> "not run", out |-> <<FALSE, None, "none">>]

\* ----------------------------------------------------------- specifications
Init ==
    /\ InitEnq /\ InitLive
    /\ reg_configured = TRUE /\ InitPimIdle
    /\ rec = None /\ InitStageIdle
    /\ oadoc = None /\ InitOaIdle
    /\ fn_in = None /\ fn_out = [st |-> "not run"]
\* The deployment either sets HARVEST_REG_TABLE or leaves it empty.
InitManifest ==
    /\ InitEnq /\ InitLive
    /\ reg_configured \in BOOLEAN /\ InitPimIdle
    /\ rec = None /\ InitStageIdle
    /\ oadoc = None /\ InitOaIdle
    /\ fn_in = None /\ fn_out = [st |-> "not run"]

DoCall == \E r \in Runs : \E a \in Args(r) : Call(r, a) /\ UNCHANGED <<liveVars, pimVars, stageVars, oaVars, fnVars>>
DoCallAlone ==
    /\ \A q \in Runs : pc[q] \notin InFlight
    /\ \E r \in Runs : \E a \in Args(r) : Call(r, a) /\ UNCHANGED <<liveVars, pimVars, stageVars, oaVars, fnVars>>
DoPut == \E r \in Runs : PutItem(r) /\ UNCHANGED <<liveVars, pimVars, stageVars, oaVars, fnVars>>
DoPriority == \E r \in Runs : PriorityUpdate(r) /\ UNCHANGED <<liveVars, pimVars, stageVars, oaVars, fnVars>>
DoRefresh == \E r \in Runs : Refresh(r) /\ UNCHANGED <<liveVars, pimVars, stageVars, oaVars, fnVars>>
DoPutFault == \E r \in Runs : PutItemFault(r) /\ UNCHANGED <<liveVars, pimVars, stageVars, oaVars, fnVars>>
DoPriorityFault == \E r \in Runs : PriorityUpdateFault(r) /\ UNCHANGED <<liveVars, pimVars, stageVars, oaVars, fnVars>>
DoRefreshFault == \E r \in Runs : RefreshFault(r) /\ UNCHANGED <<liveVars, pimVars, stageVars, oaVars, fnVars>>
DoDelete == \E k \in AllKeys : Delete(k) /\ UNCHANGED <<liveVars, pimVars, stageVars, oaVars, fnVars>> /\ UNCHANGED now
DoHandlerStart == \E cands \in Batches : HandlerStart(cands) /\ UNCHANGED <<enqVars, pimVars, stageVars, oaVars, fnVars>>
DoUpsertOne == \E ok \in BOOLEAN : UpsertOne(ok) /\ UNCHANGED <<enqVars, pimVars, stageVars, oaVars, fnVars>>
DoHandlerReturn == HandlerReturn /\ UNCHANGED <<enqVars, pimVars, stageVars, oaVars, fnVars>>

\* Concurrent pipeline runs against a store that answers every request.
Next == DoCall \/ DoPut \/ DoPriority \/ DoRefresh
Spec == Init /\ [][Next]_vars

\* Pipeline runs one after the other (re-runs of the same work).
NextSeq == DoCallAlone \/ DoPut \/ DoPriority \/ DoRefresh
SpecSeq == Init /\ [][NextSeq]_vars

\* Concurrent runs against a store whose requests may fail transiently.
NextErr == DoCall \/ DoPut \/ DoPriority \/ DoRefresh
           \/ DoPutFault \/ DoPriorityFault \/ DoRefreshFault
SpecErr == Init /\ [][NextErr]_vars

\* Concurrent runs while another actor may delete entries.
NextDel == DoCall \/ DoPut \/ DoPriority \/ DoRefresh \/ DoDelete
SpecDel == Init /\ [][NextDel]_vars

\* The live handler, invoked repeatedly; put_item may raise.
NextLive == DoHandlerStart \/ DoUpsertOne \/ DoHandlerReturn
SpecLive == Init /\ [][NextLive]_vars

\* The manifest handler, invoked repeatedly; its S3 and registry writes may
\* raise.
NextManifest ==
    \/ \E ok \in BOOLEAN, bs \in BibLists :
          \E ds \in FetchAdsDetails(bs) :
              PimStart(ok, bs, ds) /\ UNCHANGED <<enqVars, now, liveVars, stageVars, oaVars, fnVars>>
    \/ PimEvaluate /\ UNCHANGED <<enqVars, now, liveVars, stageVars, oaVars, fnVars>>
    \/ \E ok \in BOOLEAN : PimWrite(ok) /\ UNCHANGED <<enqVars, now, liveVars, stageVars, oaVars, fnVars>>
    \/ \E o \in {"ok", "mark_raises", "index_raises"} :
          PimMark(o) /\ UNCHANGED <<enqVars, now, liveVars, stageVars, oaVars, fnVars>>
    \/ PimReturn /\ UNCHANGED <<enqVars, now, liveVars, stageVars, oaVars, fnVars>>
SpecManifest == InitManifest /\ [][NextManifest]_vars

\* prepare_ingest_manifest with a registry, next to a concurrent invocation
\* of the same handler (for the same nova n1 or for another nova n2) whose
\* event carries the accepted document m1: its claim_in_registry, its put_json
\* and its mark_done_in_registry are steps of their own.
NextClaims ==
    \/ NextManifest
    \/ /\ peer.pc = "idle" /\ peer.runs < MaxManifestRuns
       /\ \E n \in {"n1", "n2"} :
            IF ClaimInRegistry(reg_table, "m1")
            THEN /\ reg_table' = Store(reg_table, "m1",
                                       [status |-> "PENDING", manifest_key |-> Absent])
                 /\ claim_wins' = [claim_wins EXCEPT !["m1"] = @ + 1]
                 /\ peer' = [peer EXCEPT !.pc = "write", !.nova_key = n, !.runs = @ + 1]
            ELSE /\ peer' = [peer EXCEPT !.nova_key = n, !.runs = @ + 1, !.skipped = @ + 1]
                 /\ UNCHANGED <<reg_table, claim_wins>>
       /\ UNCHANGED <<enqVars, now, liveVars, stageVars, oaVars, fnVars, reg_configured,
                      manifest_bucket, nova_index, mpc, bibs, docs, di, created_keys,
                      skipped, out_manifests, manifest_runs, orphaned>>
    \/ /\ peer.pc = "write"
       /\ \E ok \in BOOLEAN :
            IF ok
            THEN /\ manifest_bucket' = manifest_bucket \cup {ManifestKey(peer.nova_key, "m1")}
                 /\ peer' = [peer EXCEPT !.pc = "mark"]
            ELSE /\ peer' = [peer EXCEPT !.pc = "idle"]
                 /\ UNCHANGED manifest_bucket
       /\ UNCHANGED <<enqVars, now, liveVars, stageVars, oaVars, fnVars, reg_configured,
                      reg_table, nova_index, mpc, bibs, docs, di, created_keys,
                      skipped, out_manifests, manifest_runs, orphaned, claim_wins>>
    \/ /\ peer.pc = "mark"
       /\ reg_table' = Store(reg_table, "m1",
                             [status |-> "PENDING_MANIFEST",
                              manifest_key |-> ManifestKey(peer.nova_key, "m1")])
       /\ peer' = [peer EXCEPT !.pc = "idle"]
       /\ UNCHANGED <<enqVars, now, liveVars, stageVars, oaVars, fnVars, reg_configured,
                      manifest_bucket, nova_index, mpc, bibs, docs, di, created_keys,
                      skipped, out_manifests, manifest_runs, orphaned, claim_wins>>
SpecClaims == Init /\ [][NextClaims]_vars

\* The pipeline on one record of an event: the classifier, the staging
\* handler, and then prepare_ingest_manifest (the state machine invokes it
\* after the staging step has returned).
InitPipeline ==
    /\ InitEnq /\ InitLive
    /\ reg_configured = TRUE /\ InitPimIdle
    /\ rec \in Records /\ InitStageIdle
    /\ oadoc = None /\ InitOaIdle
    /\ fn_in = None /\ fn_out = [st |-> "not run"]
NextPipeline ==
    \/ Classify /\ UNCHANGED <<enqVars, now, liveVars, pimVars, oaVars, fnVars>>
    \/ Stage(TRUE, TRUE) /\ UNCHANGED <<enqVars, now, liveVars, pimVars, oaVars, fnVars>>
    \/ verdict.st /= "not run" /\ staged.st /= "not run" /\ NextManifest
SpecPipeline == InitPipeline /\ [][NextPipeline]_vars

\* The staging handler on one event: with or without ADS records, with or
\* without ADS_QUEUE_TABLE.
NextStaging ==
    \E has_records, queue_configured \in BOOLEAN :
        Stage(has_records, queue_configured)
            /\ UNCHANGED <<enqVars, now, liveVars, pimVars, oaVars, fnVars>>
SpecStaging == InitPipeline /\ [][NextStaging]_vars

\* The open-access evaluation of one document by each of the four functions.
\* _resolve_open_access_via_resolver answers (None, None) or a URL with the
\* suffix of the link gateway that served it.
InitOa ==
    /\ InitEnq /\ InitLive
    /\ reg_configured = TRUE /\ InitPimIdle
    /\ rec = None /\ InitStageIdle
    /\ oadoc \in OaDocs /\ InitOaIdle
    /\ fn_in = None /\ fn_out = [st |-> "not run"]
NextOa ==
    \/ /\ oa_pim.st = "not run"
       /\ oa_pim' = [st |-> "returned", out |-> PimEvaluateOpenAccess(oadoc)]
       /\ UNCHANGED <<enqVars, now, liveVars, pimVars, stageVars, fnVars, oadoc, oa_lib,
                      oa_mapped, oa_slim>>
    \/ /\ oa_lib.st = "not run"
       /\ oa_lib' = [st |-> "returned", out |-> EvaluateOpenAccess(oadoc)]
       /\ UNCHANGED <<enqVars, now, liveVars, pimVars, stageVars, fnVars, oadoc, oa_pim,
                      oa_mapped, oa_slim>>
    \/ /\ oa_mapped.st = "not run"
       /\ oa_mapped' = [st |-> "returned", out |-> MapAdsToHarvest(oadoc)]
       /\ UNCHANGED <<enqVars, now, liveVars, pimVars, stageVars, fnVars, oadoc, oa_pim,
                      oa_lib, oa_slim>>
    \/ /\ oa_slim.st = "not run"
       /\ \E mode \in {"smart", "all"} : \E under_cap \in BOOLEAN :
          \E ans \in {<<None, None>>, <<"https://resolved/x.pdf", "ADS_PDF">>,
                      <<"https://resolved/x.pdf", "PUB_PDF">>,
                      <<"https://resolved/x.pdf", "EPRINT_PDF">>} :
              oa_slim' = ToSlimWithResolver(oadoc, mode, under_cap, ans)
       /\ UNCHANGED <<enqVars, now, liveVars, pimVars, stageVars, fnVars, oadoc, oa_pim,
                      oa_lib, oa_mapped>>
SpecOa == InitOa /\ [][NextOa]_vars

\* ------------------------------------------------ map_ads_response_to_harvest
\* "simbad" in data_item, without the lower().
ContainsSimbadExact(data_item) == In(<<"simbad">>, data_item)

\* "simbad" in data_item.lower()
ContainsSimbad(data_item) == In(<<"simbad">>, LowerText(data_item))

\* _priority_for(doctype, is_data)
PriorityFor(doctype, is_data) ==
    IF is_data THEN 200
    ELSE IF doctype \in {"database", "dataset", "catalog"} THEN 150
    ELSE IF doctype = "circular" THEN 75
    ELSE IF doctype = "article" THEN 10
    ELSE 0

\* The candidates of one document, tag by tag (the inner loop of
\* map_ads_response_to_harvest): merge_updates(bib_source, {"data": [tag],
\* "doctype": "data", "priority": _priority_for("data", True)}) for every tag
\* without "simbad".
RECURSIVE PerDataCandidates(_, _)
PerDataCandidates(bib_source, data) ==
    IF data = <<>> THEN <<>>
    ELSE (IF ContainsSimbad(Head(data)) THEN <<>>
          ELSE <<[bib_source EXCEPT !.data = <<Head(data)>>, !.doctype = "data",
                                    !.priority = PriorityFor("data", TRUE)]>>)
         \o PerDataCandidates(bib_source, Tail(data))

\* The body of the try of map_ads_response_to_harvest for one document:
\* map_ads_to_harvest, BiblioSource(**mapped_bib) (which raises on an empty
\* bibcode, _clean_bibcode; the except then skips the document), the overall
\* candidate and the per-data candidates.  best_free_url is not a field of
\* BiblioSource, so open_access_url stays unset.
HarvestVariants(doc, nova_id, t) ==
    LET bib_source == [nova_id |-> nova_id, bibcode |-> Strip(doc.bibcode),
                       doctype |-> doc.doctype, open_access_url |-> "",
                       data |-> doc.data, status |-> "created",
                       priority |-> PriorityFor(doc.doctype, FALSE),
                       updated_at |-> t]
    IN  IF Strip(doc.bibcode) = <<>> THEN <<>>
        ELSE <<bib_source>> \o PerDataCandidates(bib_source, doc.data)

\* map_ads_response_to_harvest(resp, nova_id): the documents in order.
RECURSIVE MapAdsResponseToHarvest(_, _, _)
MapAdsResponseToHarvest(resp_docs, nova_id, t) ==
    IF resp_docs = <<>> THEN <<>>
    ELSE HarvestVariants(Head(resp_docs), nova_id, t)
            \o MapAdsResponseToHarvest(Tail(resp_docs), nova_id, t)

\* Pure functions applied to arguments drawn from bounded sets.  Variants: a
\* response of one or two documents, the first with a bibcode that may be
\* empty, either doctype and at most MaxData data tags.  Fingerprints:
\* two (nova_id, bibcode) pairs, in variations of letter case and of
\* surrounding blanks, fingerprinted by BiblioSource.fp and by _fingerprint as
\* _enqueue_snapshot calls it.
InitFn ==
    /\ InitEnq /\ InitLive
    /\ reg_configured = TRUE /\ InitPimIdle
    /\ rec = None /\ InitStageIdle
    /\ oadoc = None /\ InitOaIdle
    /\ fn_out = [st |-> "not run"]
    /\ \/ \E s1, s2 \in {<<"n", "1">>, <<"N", "1">>, <<" ", "n", "1">>, <<"n", "2">>} :
          \E c1, c2 \in {<<"b", "1">>, <<"B", "1">>, <<"b", "1", " ">>, <<"b", "2">>} :
              fn_in = [kind |-> "fingerprint", s1 |-> s1, c1 |-> c1, s2 |-> s2, c2 |-> c2]
       \/ LET tags == {<<"CDS">>, <<"ESO">>, <<"CDS", " ", "ESO">>, <<"SIMBAD", ":", "1">>}
              lists == UNION {[1..n -> tags] : n \in 0..MaxData}
              more == {<<>>,
                       <<[bibcode |-> <<>>, doctype |-> "article", data |-> <<>>]>>,
                       <<[bibcode |-> <<"b", "2">>, doctype |-> "article",
                          data |-> <<<<"SIMBAD", ":", "1">>, <<"CDS">>>>]>>}
          IN  \E b \in {<<"b", "1">>, <<>>}, dt \in {"article", "data"}, d \in lists,
                 rest \in more :
                  fn_in = [kind |-> "variants",
                           docs |-> <<[bibcode |-> b, doctype |-> dt, data |-> d]>> \o rest]
NextFn ==
    \/ /\ fn_out.st = "not run" /\ fn_in.kind = "fingerprint"
       /\ fn_out' = [st |-> "returned",
                     fp |-> <<BiblioFp(fn_in.s1, fn_in.c1), BiblioFp(fn_in.s2, fn_in.c2)>>,
                     pk |-> <<PkOf(fn_in.s1, fn_in.c1), PkOf(fn_in.s2, fn_in.c2)>>]
       /\ UNCHANGED <<enqVars, now, liveVars, pimVars, stageVars, oaVars, fn_in>>
    \/ /\ fn_out.st = "not run" /\ fn_in.kind = "variants"
       /\ fn_out' = [st |-> "returned",
                     out |-> MapAdsResponseToHarvest(fn_in.docs, <<"n", "1">>, now),
                     per_doc |-> [i \in DOMAIN fn_in.docs |->
                                    HarvestVariants(fn_in.docs[i], <<"n", "1">>, now)]]
       /\ UNCHANGED <<enqVars, now, liveVars, pimVars, stageVars, oaVars, fn_in>>
SpecFn == InitFn /\ [][NextFn]_vars

\* ------------------------------------------------------------------ claims
Min(S) == CHOOSE x \in S : \A y \in S : x <= y

\* The entry stored under the key of run r's call.
EntryOf(tbl, r) == tbl[KeyOf(args[r])]

\* No call on key k is in flight.
Settled(k) == \A r \in Runs : pc[r] \in InFlight => KeyOf(args[r]) /= k

\* C1. Priority-improves-only: a priority update on an entry with stored
\* priority p, offering q, leaves p when q >= p and stores q when q < p (or when
\* no priority is stored); no step ever raises a stored priority, and the stored
\* priority always is the minimum of the priorities whose put or priority
\* update has run on the key.
C1_PriorityImprovesOnly ==
    /\ [](\A k \in DOMAIN queue_table : queue_table[k].priority = Min(applied[k]))
    /\ [][\A k \in DOMAIN queue_table :
            /\ k \in DOMAIN queue_table'
            /\ queue_table'[k].priority <= queue_table[k].priority]_vars
    /\ [][\A r \in Runs :
            (pc[r] = "prio" /\ pc'[r] = "refresh") =>
                LET p == EntryOf(queue_table, r).priority
                    q == args[r].priority
                IN  EntryOf(queue_table', r).priority =
                        IF p = MissingNum \/ q < p THEN q ELSE p]_vars

\* C1 witness: a call offering a worse priority than the stored one has
\* completed on an existing entry, and the stored priority is still the better.
C1_Witness ==
    \E r \in Runs :
        /\ pc[r] = "done"
        /\ steps[r] = <<<<"put", CondFailed>>, <<"prio", CondFailed>>, <<"refresh", "ok">>>>
        /\ EntryOf(queue_table, r).priority < args[r].priority

\* The stored fields of two entries agree, updated_at left aside.
SameButUpdatedAt(e1, e2) == [e1 EXCEPT !.updated_at = 0] = [e2 EXCEPT !.updated_at = 0]

\* C2. Idempotence: of two calls in succession with identical arguments the
\* first returns created=True, the second created=False, and the second changes
\* no stored field of the entry besides updated_at, for every candidate.
C2_Idempotent ==
    (Len(hist) = 2 /\ hist[1].args = hist[2].args /\ hist[1].res.created) =>
        /\ ~hist[2].res.created
        /\ hist[2].entry.priority = hist[1].entry.priority
        /\ SameButUpdatedAt(hist[1].entry, hist[2].entry)

\* C3. No duplicates per fingerprint: the registry holds at most one entry per
\* fingerprint (pk), and at most one call per fingerprint returns created=True.
C3_OneEntryPerFingerprint ==
    \A k1 \in DOMAIN queue_table, k2 \in DOMAIN queue_table :
        k1[1] = k2[1] => (k1 = k2 /\ created_cnt[k1] <= 1)

\* C4. Racing upserts: however the store operations of the calls on one key
\* interleave, at most one call returns created=True, and once no call on the
\* key is in flight exactly one has, the key holds an entry, and its priority
\* is the minimum of all priorities offered.
C4_RacingUpserts ==
    \A k \in AllKeys :
        /\ created_cnt[k] <= 1
        /\ (offered[k] /= {} /\ Settled(k)) =>
              /\ k \in DOMAIN queue_table
              /\ created_cnt[k] = 1
              /\ queue_table[k].priority = Min(offered[k])

\* C4 witness: two calls on one key were in flight at once, both have returned,
\* the one that created the entry offered the worse priority and the entry
\* carries the better one.
C4_Witness ==
    \E r \in Runs, q \in Runs :
        /\ KeyOf(args[r]) \in raced
        /\ KeyOf(args[q]) = KeyOf(args[r])
        /\ pc[r] = "done" /\ pc[q] = "done"
        /\ res[r].created /\ ~res[q].created
        /\ args[q].priority < args[r].priority
        /\ EntryOf(queue_table, r).priority = args[q].priority

\* C5. Create-if-absent: a put on a key without entry creates the entry with
\* status READY, the offered priority, attempts = 0 and created_at =
\* updated_at, and the call returns enqueued=True, created=True with the put as
\* its only store operation.
C5_CreateIfAbsent ==
    [][\A r \in Runs :
         (pc[r] = "put" /\ pc'[r] /= "put" /\ KeyOf(args[r]) \notin DOMAIN queue_table) =>
            /\ pc'[r] = "done"
            /\ res'[r].enqueued /\ res'[r].created
            /\ steps'[r] = <<<<"put", "ok">>>>
            /\ KeyOf(args[r]) \in DOMAIN queue_table'
            /\ EntryOf(queue_table', r).status = "READY"
            /\ EntryOf(queue_table', r).priority = args[r].priority
            /\ EntryOf(queue_table', r).attempts = 0
            /\ EntryOf(queue_table', r).created_at = EntryOf(queue_table', r).updated_at]_vars

\* C5 witness: a call has created an entry and returned.
C5_Witness ==
    \E r \in Runs :
        /\ pc[r] = "done" /\ res[r].created
        /\ steps[r] = <<<<"put", "ok">>>>
        /\ EntryOf(queue_table, r).status = "READY"

\* C6. Volatile refresh is unconditional: when a call on an existing entry
\* returns (created=False), the entry's open-access URL, OA reason and snapshot
\* pointer are those of this call (a URL or reason the call does not carry is
\* stored as the empty string), whether or not its priority update applied.
C6_RefreshUnconditional ==
    [][\A r \in Runs :
         (pc[r] = "refresh" /\ pc'[r] = "done") =>
            LET e == EntryOf(queue_table', r)
                a == args[r]
            IN  /\ ~res'[r].created
                /\ e.open_access_url = (IF a.open_access_url = None THEN "" ELSE a.open_access_url)
                /\ e.oa_reason = (IF a.oa_reason = None THEN "" ELSE a.oa_reason)
                /\ e.ads_snapshot_key = a.ads_snapshot_key]_vars

\* C6 witness: a call whose priority update did not apply has returned, and the
\* entry, created by a run with another snapshot and another URL, carries this
\* call's snapshot pointer and URL.
C6_Witness ==
    \E r \in Runs, q \in Runs :
        /\ pc[r] = "done" /\ pc[q] = "done"
        /\ res[q].created
        /\ KeyOf(args[q]) = KeyOf(args[r])
        /\ steps[r] = <<<<"put", CondFailed>>, <<"prio", CondFailed>>, <<"refresh", "ok">>>>
        /\ args[q].open_access_url /= args[r].open_access_url
        /\ args[q].ads_snapshot_key /= args[r].ads_snapshot_key
        /\ EntryOf(queue_table, r).open_access_url = args[r].open_access_url
        /\ EntryOf(queue_table, r).ads_snapshot_key = args[r].ads_snapshot_key

\* C7. Live upsert, priority-improves-only: no step of the live handler
\* replaces the stored priority of an existing entry by a higher one.
C7_LivePriorityImprovesOnly ==
    [][\A k \in DOMAIN harvest_table :
         harvest_table'[k].priority <= harvest_table[k].priority]_vars

\* C8. Transient registry errors are not swallowed: the live handler does not
\* return normally from an invocation in which a store write failed.
C8_LiveErrorsPropagate == hpc = "returned" => failures = {}

\* C9. A conditional-check failure of the put or of the priority update is
\* absorbed (the call goes on, and when it returns it returns enqueued=True,
\* created=False); any other error of these two writes is raised to the
\* caller, and no later store operation of the call runs.
C9_ErrorHandling ==
    \A r \in Runs :
        /\ \A i \in DOMAIN steps[r] :
              (steps[r][i][1] \in {"put", "prio"} /\ steps[r][i][2] \notin {"ok", CondFailed}) =>
                  (i = Len(steps[r]) /\ pc[r] = "raised")
        /\ pc[r] = "raised" =>
              (steps[r] /= <<>> /\ steps[r][Len(steps[r])][2] \notin {"ok", CondFailed})
        /\ steps[r] = <<<<"put", CondFailed>>>> => pc[r] = "prio"
        /\ (Len(steps[r]) = 2 /\ steps[r][2][2] \in {"ok", CondFailed}) => pc[r] = "refresh"
        /\ (pc[r] = "done" /\ steps[r] /= <<>> /\ steps[r][1] = <<"put", CondFailed>>) =>
              (res[r].enqueued /\ ~res[r].created /\ Len(steps[r]) = 3)

\* C9 witness: a call whose put failed the conditional check went on to the
\* priority update, which failed with another error, and the call raised.
C9_Witness ==
    \E r \in Runs :
        /\ pc[r] = "raised"
        /\ steps[r] = <<<<"put", CondFailed>>, <<"prio", Throttled>>>>

\* C10. Concurrent deletion is a hard error: a call whose entry was deleted
\* after its put failed and before its refresh ran does not return normally.
C10_DeletionRaises == \A r \in Runs : deleted[r] => pc[r] /= "done"

\* C11. A malformed candidate never aborts the batch: an invocation whose
\* harvest_candidates holds an entry that fails BiblioSource validation does not
\* end by raising; the other candidates of the batch are still upserted.
C11_MalformedNeverAborts ==
    (\E i \in DOMAIN candidates_in : ~CleanNovaIdOk(candidates_in[i][1])) =>
        hpc /= "raised"

\* C12. No silent drops in prepare_ingest_manifest: on every normal return of
\* the handler created + skipped equals the number of bibcodes submitted for
\* evaluation, and created equals the number of manifest keys listed.
C12_NoSilentDrops ==
    (mpc = "returned") =>
        /\ out_manifests.created + out_manifests.skipped = Len(bibs)
        /\ out_manifests.created = Len(out_manifests.keys)

\* C13. Safe to resume: when an invocation failed after it had claimed a
\* bibcode and before that bibcode's manifest was written, a later invocation
\* that evaluates the bibcode's document again and returns normally leaves the
\* manifest of the bibcode in the bucket.
C13_ResumeProducesManifest ==
    (mpc = "returned") =>
        \A i \in DOMAIN docs :
            docs[i].bibcode \in orphaned =>
                ManifestKey("n1", docs[i].bibcode) \in manifest_bucket

\* C14. End-to-end enqueue: once the staging handler has run on an event, a
\* record that satisfies the eligibility rules on its own fields is in the
\* registry with status READY and the classifier's priority for it, a record
\* that does not satisfy them is not enqueued, and the slim record carries the
\* is_open_access flag of the input record. (Records on which the classifier
\* raises are left aside.)
C14_EndToEndEnqueue ==
    (staged.st /= "not run" /\ ~EligibleRaises(rec)) =>
        /\ EligibleAndPriority(rec)[1] =>
              \E k \in DOMAIN staged.table :
                  /\ staged.table[k].status = "READY"
                  /\ staged.table[k].priority = EligibleAndPriority(rec)[2]
        /\ ~EligibleAndPriority(rec)[1] => DOMAIN staged.table = {}
        /\ Flag(SlimAdsRecord(rec), "is_open_access") = Flag(rec, "is_open_access")

C16_RuleTable ==
    /\ PRIORITY_P0 < PRIORITY_P1 /\ PRIORITY_P1 < PRIORITY_P2
    /\ (verdict.st = "returned" /\ LowerText(rec.doctype) \notin ExcludedDoctypes) =>
          LET d == LowerText(rec.doctype)
              major == LowerText(rec.bibstem) \in BigJournals
              authors == "authors_count" \in DOMAIN rec /\ rec.authors_count > 0
              abs == rec.has_abstract
              oa == rec.is_open_access
              tier == IF d \in TopDoctypes /\ authors /\ (abs \/ oa) THEN "P0"
                      ELSE IF d = <<"article">> /\ major /\ oa /\ authors THEN "P1 big-journal OA"
                      ELSE IF oa /\ authors THEN "P2 other OA"
                      ELSE "none"
              base == CASE tier = "P0" -> PRIORITY_P0
                        [] tier = "P1 big-journal OA" -> PRIORITY_P1
                        [] OTHER -> PRIORITY_P2
          IN  /\ verdict.out[1] = (tier /= "none")
              /\ verdict.out[1] =>
                    /\ verdict.out[3][1] = tier
                    /\ verdict.out[2] = PrioFor(base, EntryDateOf(rec))
              /\ ~authors => ~verdict.out[1]

\* C16 witness: an open-access article of a major venue with authors got the
\* P1 rule, although the P2 rule matches it as well.
C16_Witness ==
    /\ verdict.st = "returned"
    /\ rec.doctype = <<"article">> /\ rec.bibstem = <<"MNRAS">>
    /\ rec.is_open_access /\ ~rec.has_abstract
    /\ verdict.out[1] /\ verdict.out[3] = <<"P1 big-journal OA">>
    /\ verdict.out[2] = 45

\* C17. Recency bonus: for every entry date _recency_bonus returns, without
\* raising, an integer in [0, max_bonus]: max_bonus at age 0 and for future
\* dates, 0 at age >= window and for absent or unparseable dates, and never
\* more for an older date than for a younger one; the priority of an eligible
\* record is max(1, base - bonus) >= 1; with window 365 and max_bonus 5 an entry
\* 5 days old in tier P1 gets priority 45.
C17_RecencyBonus ==
    LET e == EntryDateOf(rec)
        b == RecencyBonus(e)
        base == CASE verdict.out[3][1] = "P0" -> PRIORITY_P0
                  [] verdict.out[3][1] = "P1 big-journal OA" -> PRIORITY_P1
                  [] OTHER -> PRIORITY_P2
    IN  /\ verdict.st /= "TypeError"
        /\ verdict.st = "returned" =>
              /\ b \in 0..PRIORITY_RECENCY_MAX_BONUS
              /\ (e[1] \in {"utc", "ymd"} /\ e[2] <= 0) => b = PRIORITY_RECENCY_MAX_BONUS
              /\ (e[1] \in {"utc", "ymd"} /\ e[2] >= PRIORITY_RECENCY_WINDOW_DAYS) => b = 0
              /\ e[1] \in {"none", "junk"} => b = 0
              /\ \A r \in Records :
                    (r.entry_date[1] = "utc" /\ e[1] = "utc" /\ r.entry_date[2] >= e[2]) =>
                        RecencyBonus(r.entry_date) <= b
              /\ verdict.out[1] =>
                    /\ verdict.out[2] = (IF base - b < 1 THEN 1 ELSE base - b)
                    /\ verdict.out[2] >= 1
                    /\ (e = <<"utc", 5>> /\ base = PRIORITY_P1) => verdict.out[2] = 45

\* C18: open-access cascade, arXiv first.  Whenever the link list of a
\* document holds a link with an arXiv marker (in its label or, as
\* "arxiv.org", in its URL; both compared in lower case) and "pdf" in its
\* URL, evaluate_open_access (of ads_mapping and of prepare_ingest_manifest)
\* returns (True, url, "arxiv") with the URL of the first such link in list
\* order, whatever the property flags are and whatever ADS or publisher links
\* come earlier; a lower tier is the answer only when no link qualifies at a
\* higher one.
C18_ArxivFirst ==
    LET raw == oadoc.link
        Url(l) == LowerText(l[2])
        PimLabel(l) == LowerText(l[1])
        LibLabel(l) == LowerText(IF l[1] /= <<>> THEN l[1] ELSE l[3])
        Arxiv(lb, l) == /\ In(<<"arxiv">>, lb) \/ In(<<"arxiv", ".org">>, Url(l))
                        /\ In(<<"pdf">>, Url(l))
        Scan(lb) == \/ In(<<"ads", " ", "pdf">>, lb)
                    \/ In(<<"ads", " ", "scanned">>, lb)
                    \/ In(<<"ads", " ", "full", " ", "text">>, lb)
        Publisher(lb, l) == /\ In(<<"publisher">>, lb)
                            /\ \/ In(<<"pdf">>, Url(l)) \/ In(<<"article">>, lb)
                               \/ In(<<"html">>, lb)
        Flagged == \E p \in oadoc.property : p \in {"OPENACCESS", "EPRINT_OPENACCESS"}
        Holds(r, Label(_)) ==
            LET q == {i \in DOMAIN raw : Arxiv(Label(raw[i]), raw[i])}
                sc == \E i \in DOMAIN raw : Scan(Label(raw[i]))
                pb == \E i \in DOMAIN raw : Publisher(Label(raw[i]), raw[i])
            IN  r.st = "returned" =>
                  IF q /= {}
                  THEN /\ r.out[1]
                       /\ r.out[3] = "arxiv"
                       /\ \E f \in q : /\ \A j \in q : f <= j
                                       /\ r.out[2] = Strip(raw[f][2])
                  ELSE /\ r.out[3] /= "arxiv"
                       /\ sc => r.out[3] = "ads"
                       /\ r.out[3] = "publisher_oa" => ~sc /\ Flagged /\ pb
                       /\ r.out[3] = "property_only" => ~sc /\ Flagged /\ ~pb
                       /\ r.out[3] = "none" => ~sc /\ ~Flagged
    IN  Holds(oa_lib, LibLabel) /\ Holds(oa_pim, PimLabel)

\* Both functions have evaluated a flagged document whose first link is an
\* ADS PDF and whose second link is an arXiv PDF, and answered with the
\* arXiv link.
C18_Witness ==
    /\ oa_lib.st = "returned" /\ oa_pim.st = "returned"
    /\ Len(oadoc.link) = 2
    /\ oadoc.link[1][1] = <<" ", "ADS", " ", "PDF">>
    /\ oadoc.link[2][1] = <<"Preprint">>
    /\ oadoc.property = {"OPENACCESS"}
    /\ oa_lib.out[3] = "arxiv" /\ oa_pim.out[3] = "arxiv"
    /\ oa_lib.out[2] = <<"https://", "ARXIV", ".org", "/", "PDF", "/", "2401.01234">>

\* C19: the circular rule wins.  For every document whose doctype is
\* "circular" (and that has a bibcode), the mapped record is open access with
\* reason "circular_html" and a URL built from the bibcode, whatever its links
\* and flags are, and neither map_ads_to_harvest nor _to_slim_with_resolver
\* raises.
C19_CircularRuleWins ==
    (LowerText(oadoc.doctype) = <<"circular">> /\ oadoc.bibcode /= <<>>) =>
        /\ oa_mapped.st = "returned" =>
              /\ oa_mapped.out[1]
              /\ oa_mapped.out[3] = "circular_html"
              /\ oa_mapped.out[2] = AdsAbsUrl(oadoc.bibcode)
        /\ oa_slim.st /= "not run" =>
              /\ oa_slim.st = "returned"
              /\ oa_slim.out[1]
              /\ oa_slim.out[3] = "circular_html"

\* C20: the open-access reason is one of the six codes of OpenAccessResult,
\* on every evaluation path (link cascade, circular override, resolver
\* lookup), and a document matched at the ADS-hosted PDF/scan tier carries
\* the reason "ads_scan".
C20_ReasonEnum ==
    LET OaCodes == {"arxiv", "ads_scan", "publisher_oa", "property_only",
                    "circular_html", "none"}
        AtScanTier(links) == /\ \A i \in DOMAIN links : ~PimArxivPdf(links[i])
                             /\ \E i \in DOMAIN links : PimAdsScan(links[i])
    IN  /\ oa_pim.st = "returned" => oa_pim.out[3] \in OaCodes
        /\ oa_lib.st = "returned" => oa_lib.out[3] \in OaCodes
        /\ oa_mapped.st = "returned" => oa_mapped.out[3] \in OaCodes
        /\ oa_slim.st = "returned" => oa_slim.out[3] \in OaCodes
        /\ (oa_pim.st = "returned" /\ AtScanTier(PimCollectLinks(oadoc)))
              => oa_pim.out[3] = "ads_scan"
        /\ (oa_lib.st = "returned" /\ AtScanTier(CollectLinks(oadoc)))
              => oa_lib.out[3] = "ads_scan"

\* C21: for every ADS document that carries an arXiv identifier (one that
\* _first_arxiv_id recognises), the slim record of _to_slim_with_resolver is
\* open access and its open_access_url is on arxiv.org; this includes a
\* circular of bibstem ATel, as the unit test asserts.
C21_ArxivIdGivesArxivUrl ==
    (oa_slim.st = "returned" /\ FirstArxivId(oadoc.identifier) /= None) =>
        /\ oa_slim.out[1]
        /\ oa_slim.out[3] \in {"arxiv", "circular_html"}
        /\ oa_slim.out[2][1] = "https://arxiv.org/pdf/"

\* C22: fingerprint invariance.  Two (subject, source) pairs that are equal
\* up to letter case and leading/trailing whitespace get the same fingerprint,
\* and two pairs that differ after that normalisation get different ones
\* (hash treated as injective), both for the fp field of BiblioSource and for
\* _fingerprint as used by the enqueue path (where it makes the pk).
C22_FingerprintInvariance ==
    (fn_out.st = "returned" /\ fn_in.kind = "fingerprint") =>
        LET Norm(x) == Lower(Strip(x))
            same == /\ Norm(fn_in.s1) = Norm(fn_in.s2)
                    /\ Norm(fn_in.c1) = Norm(fn_in.c2)
        IN  /\ same <=> fn_out.fp[1] = fn_out.fp[2]
            /\ same <=> fn_out.pk[1] = fn_out.pk[2]

\* C23: created_at is set once.  The created_at of a candidate record is
\* fixed when the record is first created: no step of the staging handler, in
\* this or in a later run, changes the created_at of an entry that the
\* registry already holds.
C23_CreatedAtSetOnce ==
    [][\A k \in DOMAIN harvest_table :
         harvest_table'[k].created_at = harvest_table[k].created_at]_vars

\* C24: derived sort keys stay consistent with the priority.  After any
\* sequence of _enqueue_snapshot calls on a key, in any interleaving, the
\* stored gsi1_sk and the stored gsi2_sk both carry the zero-padded value of
\* the priority the entry currently stores.
C24_SortKeysFollowPriority ==
    \A k \in DOMAIN queue_table :
        /\ queue_table[k].gsi1_sk[1] = Pad3(queue_table[k].priority)
        /\ queue_table[k].gsi2_sk[2] = Pad3(queue_table[k].priority)

\* C25: upsert summaries are accurate.  The enqueue summary of a staging run
\* counts the results of its _enqueue_snapshot calls that carry created,
\* respectively updated_priority; so for every call that has returned, created
\* is set exactly when the call's put created the entry, and updated_priority
\* is set exactly when the call's priority update lowered the stored priority
\* of an existing entry (an entry whose priority did not improve is counted in
\* neither).
C25_SummaryAccurate ==
    \A r \in Runs :
        pc[r] = "done" =>
            /\ res[r].created <=> steps[r] = <<<<"put", "ok">>>>
            /\ res[r].updated_priority <=>
                  \E i \in DOMAIN steps[r] : steps[r][i] = <<"prio", "ok">>

\* C26: claim-once registry.  With a registry table configured, over any
\* number of sequential or concurrent runs of prepare_ingest_manifest, for the
\* same nova or for different novae, claim_in_registry returns True at most
\* once per bibcode (and pipeline version); a caller that finds the bibcode
\* claimed gets False and counts it as skipped; so at most one manifest is
\* ever written per bibcode.
C26_ClaimOnce ==
    /\ [](reg_configured =>
            \A b \in DOMAIN claim_wins :
                /\ claim_wins[b] <= 1
                /\ Cardinality({k \in manifest_bucket : k[3] = b}) <= 1)
    /\ [][(/\ reg_configured /\ mpc = "loop" /\ di <= Len(docs)
           /\ docs[di].bibcode \in DOMAIN reg_table
           /\ (di' /= di \/ mpc' /= mpc)) =>
              (/\ mpc' = "loop" /\ di' = di + 1 /\ skipped' = skipped + 1
               /\ claim_wins' = claim_wins /\ manifest_bucket' = manifest_bucket)]_vars
    /\ [][(/\ peer.pc = "idle" /\ peer'.runs /= peer.runs
           /\ "m1" \in DOMAIN reg_table) =>
              (/\ peer'.pc = "idle" /\ peer'.skipped = peer.skipped + 1
               /\ claim_wins' = claim_wins /\ manifest_bucket' = manifest_bucket)]_vars

\* C26 witness: the handler has claimed m1 and not yet written its manifest,
\* and the concurrent invocation (for another nova) has tried to claim m1 in
\* the meantime and skipped it.
C26_Witness ==
    /\ mpc = "write" /\ docs[di].bibcode = "m1"
    /\ claim_wins["m1"] = 1
    /\ peer.pc = "idle" /\ peer.skipped = 1 /\ peer.nova_key = "n2"
    /\ manifest_bucket = {}

C28_VariantExpansion ==
    (fn_out.st = "returned" /\ fn_in.kind = "variants") =>
        LET resp_docs == fn_in.docs
            g == fn_out.per_doc
            out == fn_out.out
            Kept(d) == SelectSeq(d.data, LAMBDA tg : \A i \in DOMAIN tg :
                                     tg[i] \notin {"simbad", "SIMBAD", "Simbad"})
            before(i) == IF i = 1 THEN 0 ELSE Len(g[1])
        IN  /\ Len(g) = Len(resp_docs)
            /\ Len(out) = Len(g[1]) + (IF Len(g) = 2 THEN Len(g[2]) ELSE 0)
            /\ \A i \in DOMAIN g : \A j \in DOMAIN g[i] : out[before(i) + j] = g[i][j]
            /\ \A i \in DOMAIN resp_docs :
                  IF resp_docs[i].bibcode = <<>>
                  THEN g[i] = <<>>
                  ELSE /\ Len(g[i]) = 1 + Len(Kept(resp_docs[i]))
                       /\ g[i][1].doctype = resp_docs[i].doctype
                       /\ g[i][1].data = resp_docs[i].data
                       /\ \A j \in DOMAIN Kept(resp_docs[i]) :
                             /\ g[i][j + 1].data = <<Kept(resp_docs[i])[j]>>
                             /\ g[i][j + 1].doctype = "data"
                             /\ g[i][j + 1].priority = 200
            /\ \A i \in DOMAIN g : \A j, k \in DOMAIN g[i] :
                  g[i][j].data /= g[i][k].data =>
                      /\ CandidateId(g[i][j]) /= CandidateId(g[i][k])
                      /\ LiveKey(g[i][j])[1] /= LiveKey(g[i][k])[1]

\* C28 witness: a document that fails validation followed by a valid document
\* with a SIMBAD tag and another tag: the overall candidate and one per-data
\* candidate are emitted.
C28_Witness ==
    /\ fn_out.st = "returned" /\ fn_in.kind = "variants"
    /\ Len(fn_in.docs) = 2 /\ fn_in.docs[1].bibcode = <<>>
    /\ fn_in.docs[2].data = <<<<"SIMBAD", ":", "1">>, <<"CDS">>>>
    /\ Len(fn_out.out) = 2
    /\ fn_out.out[2].data = <<<<"CDS">>>> /\ fn_out.out[2].doctype = "data"

\* C29: registry entries of prepare_ingest_manifest only move forward and
\* never point at a missing manifest.  An entry is created in status PENDING,
\* an existing entry is never removed and changes only from PENDING to
\* PENDING_MANIFEST, and at every moment an entry in status PENDING_MANIFEST
\* has a manifest_key whose manifest object is in storage.
C29_RegistryMovesForward ==
    /\ [](\A b \in DOMAIN reg_table :
            /\ reg_table[b].status \in {"PENDING", "PENDING_MANIFEST"}
            /\ reg_table[b].status = "PENDING_MANIFEST" =>
                  reg_table[b].manifest_key \in manifest_bucket)
    /\ [][/\ \A b \in DOMAIN reg_table' \ DOMAIN reg_table :
                reg_table'[b].status = "PENDING"
          /\ \A b \in DOMAIN reg_table :
                /\ b \in DOMAIN reg_table'
                /\ reg_table'[b] /= reg_table[b] =>
                      /\ reg_table[b].status = "PENDING"
                      /\ reg_table'[b].status = "PENDING_MANIFEST"
                      /\ reg_table'[b].manifest_key \in manifest_bucket]_vars

\* C29 witness: the entry of m1, claimed and marked by the concurrent
\* invocation for nova n2, is PENDING_MANIFEST and names the stored manifest;
\* the handler has met it and skipped the document.
C29_Witness ==
    /\ "m1" \in DOMAIN reg_table
    /\ reg_table["m1"].status = "PENDING_MANIFEST"
    /\ reg_table["m1"].manifest_key = ManifestKey("n2", "m1")
    /\ reg_table["m1"].manifest_key \in manifest_bucket
    /\ mpc = "returned" /\ bibs = <<"m1">> /\ skipped = 1

====
